---- MODULE Spec2Model ----
(***************************************************************************)
(* A model of the Vue 3 core sources of this repository.                   *)
(*                                                                         *)
(* Part I   the scheduler (packages/runtime-core/src/scheduler.ts)         *)
(* Part II  the reactivity kernel (effect.ts, baseHandlers.ts,             *)
(*          reactiveEffect.ts) and the hand-written reactivity kernel of   *)
(*          the study notes (src/unnamed/part_001)                         *)
(*                                                                         *)
(* The scheduler is single-threaded: its functions call user callbacks     *)
(* (jobs, pre-flush callbacks, post-flush callbacks), and those callbacks  *)
(* call back into the scheduler.  The model keeps the JavaScript call      *)
(* stack explicitly; a step is the code between two callback boundaries.   *)
(***************************************************************************)
EXTENDS Integers, Sequences, FiniteSets, TLC

VARIABLES
    DEV,                  \* the build flag __DEV__
    isFlushing,           \* scheduler.ts:38
    isFlushPending,       \* scheduler.ts:39
    queue,                \* scheduler.ts:41
    flushIndex,           \* scheduler.ts:42
    pendingPostFlushCbs,  \* scheduler.ts:47
    activePostFlushCbs,   \* scheduler.ts:52  ([isNull, items])
    postFlushIndex,       \* scheduler.ts:53
    flushMicrotasks,      \* number of resolvedPromise.then(flushJobs) not yet run
    seen,                 \* the CountMap of the flushJobs call on the stack
    jobActive,            \* job.active of every job
    stack,                \* the call stack, innermost frame last
    errorCount,           \* calls of handleError since the last flush began
    ops,                  \* counted calls of user code so far
    runs,                 \* history: calls of each job since the last flush began
    looped,               \* history: the current flush called flushJobs again
    threw,                \* history: a job threw during the current flush
    invalidated           \* history: jobs taken back by invalidateJob while
                          \* they waited, and not queued since

schedVars == <<DEV, isFlushing, isFlushPending, queue, flushIndex,
               pendingPostFlushCbs, activePostFlushCbs, postFlushIndex,
               flushMicrotasks, seen, jobActive, stack, errorCount, ops,
               runs, looped, threw, invalidated>>

\* Part II.  The same user programs (effect functions and top-level calls)
\* run against either kernel.
VARIABLES
    impl,                 \* the kernel in use: "vue" or "toy"
    fnOf,                 \* the function of every effect: a sequence of operations
    calls,                \* the call stack, innermost frame last
    exc,                  \* an exception is propagating up the call stack
    arrLen,               \* length of the raw array behind the reactive array
    userOps,              \* calls made by top-level user code so far
    runCount,             \* history: how often each effect function was entered
    \* effect.ts
    activeEffect,         \* part_005:61 (0: undefined)
    shouldTrack,          \* part_005:302
    pauseScheduleStack,   \* part_005:303
    trackStack,           \* part_005:305
    queueEffectSchedulers,\* part_005:371
    effect,               \* the ReactiveEffect objects
    targetMap,            \* reactiveEffect.ts:14
    scheduled,            \* history: the effects whose scheduler was enqueued
                          \* since user code last called into the kernel
    triggerCalls,         \* history: the effects whose trigger callback the
                          \* last call of triggerEffects called
    \* part_001
    bucket,               \* part_001:286
    toyActiveEffect,      \* part_001:288 (0: undefined)
    effectStack,          \* part_001:289
    toyShouldTrack,       \* part_001:296
    toyDeps               \* effectFn.deps of every effect

reactVars == <<impl, fnOf, calls, exc, arrLen, userOps, runCount,
               activeEffect, shouldTrack, pauseScheduleStack, trackStack,
               queueEffectSchedulers, effect, targetMap, scheduled,
               triggerCalls, bucket, toyActiveEffect, effectStack, toyShouldTrack, toyDeps>>

\* Part III.  reactive() of part_001:541-551
VARIABLES
    reactiveMap,          \* part_001:541, a set of <<key, proxy>> pairs
    proxies,              \* the target of every Proxy made by createReactive
    ret                   \* history: the last call of user code and its result

proxyVars == <<reactiveMap, proxies, ret>>

\* The set trap of part_001:496-512 on one reactive object
VARIABLES
    store,                \* the raw object: the value of every key ("absent": no own property)
    written,              \* history: the last write, and whether it called trigger
    writes                \* history: the number of writes so far

writeVars == <<store, written, writes>>

\* KeepAlive.ts: the state of one KeepAlive instance
VARIABLES
    max,                  \* props.max
    cache,                \* KeepAlive.ts:113, the keys that have a cached vnode
    keys,                 \* KeepAlive.ts:114, in insertion order
    current,              \* KeepAlive.ts:116 ("null": none)
    pendingCacheKey,      \* KeepAlive.ts:252 ("null": none)
    hookQueued,           \* the mounted/updated hook waits in the post-flush queue
    renderThrew,          \* the last call of the render function threw
    renders,              \* history: the number of render calls so far
    recency,              \* history: the components rendered, least recent first
    evicted               \* history: the key the last render pruned ("none")

keepAliveVars == <<max, cache, keys, current, pendingCacheKey, hookQueued,
                   renderThrew, renders, recency, evicted>>

\* The template parser of part_007 and its Tokenizer (reactiveEffect.ts:837-1818)
VARIABLES
    buffer,               \* Tokenizer.buffer and currentInput, a sequence of characters
    state,                \* Tokenizer.state
    index,                \* Tokenizer.index, 0-based
    sectionStart,         \* Tokenizer.sectionStart
    sequenceIndex,        \* Tokenizer.sequenceIndex
    delimiterIndex,       \* Tokenizer.delimiterIndex
    currentSequence,      \* Tokenizer.currentSequence, by its name in Sequences
    tokenizerInVPre,      \* Tokenizer.inVPre
    inRCDATA,             \* Tokenizer.inRCDATA
    inXML,                \* Tokenizer.inXML
    mode,                 \* Tokenizer.mode
    currentOptions,       \* part_007:82
    currentOpenTag,       \* part_007:87, the element by its place in elements (0: null)
    currentProp,          \* part_007:88
    currentAttrValue,     \* part_007:89
    inPre,                \* part_007:92
    inVPre,               \* part_007:93
    currentVPreBoundary,  \* part_007:94 (0: null, -1: an element of an earlier tree)
    parserStack,          \* part_007:96, stack, innermost element first
    elements,             \* the ElementNode objects made by the running parse
    root,                 \* the children of the RootNode
    errors,               \* the codes handed to onError, in order
    parseThrew,           \* baseParse ended by an exception
    parsing,              \* baseParse is between reset and its return
    called,               \* history: the callbacks the tokenizer called in the last step
    grammar,              \* the fragments inputs are made of and the options in use
    fed                   \* the number of fragments parsed so far

tokenizerVars == <<buffer, state, index, sectionStart, sequenceIndex, delimiterIndex,
                   currentSequence, tokenizerInVPre, inRCDATA, inXML, mode>>
parserVars == <<tokenizerVars, currentOptions, currentOpenTag, currentProp,
                currentAttrValue, inPre, inVPre, currentVPreBoundary, parserStack,
                elements, root, errors, parseThrew, parsing, called, grammar,
                fed>>

\* One call of condenseWhitespace (part_007:872-941) on its own
VARIABLES
    givenNodes,           \* the argument nodes
    givenTagIsPre,        \* tag is given and currentOptions.isPreTag(tag)
    givenWhitespace,      \* currentOptions.whitespace
    givenInPre,           \* inPre at the call
    returned,             \* the call has returned
    returnedNodes         \* the array it returned

condenseVars == <<givenNodes, givenTagIsPre, givenWhitespace, givenInPre, returned,
                  returnedNodes>>

\* One watcher made by watch(source, cb, options) of part_001:428-468
VARIABLES
    watchOptions,         \* options.immediate and options.flush
    watched,              \* watch() has been called
    watchCleanup,         \* cleanup: the function last given to onInvalidate (0: undefined)
    microtasks,           \* the jobs that wait in Promise.resolve().then
    cbCalls,              \* history: the number of calls of cb so far
    registeredIn,         \* history: for every cleanup function, the call of cb that gave it
    cleanupRuns           \* history: for every cleanup function, how often it has run

watchVars == <<watchOptions, watched, watchCleanup, microtasks, cbCalls,
               registeredIn, cleanupRuns>>

\* The blocks of part_000
VARIABLES
    arrays,               \* the arrays made by openBlock and the initial one: vnodes by id
    dynamicChildStack,    \* part_000:1, the arrays by their place in arrays
    currentDynamicChildren, \* part_000:2, an array by its place in arrays (0: undefined)
    vnodes,               \* the vnode objects made so far
    blockThrew,           \* the last call ended by an exception
    blockCalls            \* the number of calls so far

blockVars == <<arrays, dynamicChildStack, currentDynamicChildren, vnodes,
               blockThrew, blockCalls>>

\* One call trigger(target, type, key, newValue) of reactiveEffect.ts:84-204
VARIABLES
    triggerCall,          \* the arguments and the depsMap of the target
    collectDone,          \* the call has been made
    collectedDeps         \* deps: what the call collected, in order

collectVars == <<triggerCall, collectDone, collectedDeps>>

\* One call transform(ast) of part_002:173-197
VARIABLES
    ast,                  \* the tree handed to transform and what the transforms do
    walkDone,             \* the call has ended
    walkThrew,            \* the call ended by an exception
    walkChildren,         \* the children arrays of the nodes after the call
    walkLog               \* history: the calls of transforms and exit callbacks

walkVars == <<ast, walkDone, walkThrew, walkChildren, walkLog>>

\* One call parse(str) of the recursive-descent parser of part_001:8-27
VARIABLES
    descentSource,        \* context.source: what is left of the template
    descentMode,          \* context.mode
    ancestors,            \* the tags of the open elements, innermost last
    descentNodes,         \* the types of the nodes made, in the order they are begun
    descentIters,         \* history: the iterations of the child loops begun
    descentStatus         \* "running", "returned" or "threw"

descentVars == <<descentSource, descentMode, ancestors, descentNodes,
                 descentIters, descentStatus>>

\* One call tokenize(str) of part_002:15-95
VARIABLES
    tokenizeStr,          \* str
    currentState,         \* part_002:16
    chars,                \* part_002:17
    tokens,               \* part_002:18
    tokenizeI,            \* i, part_002:19
    tokenizeIters,        \* history: the iterations of the loop begun
    tokenizeDone          \* the call has returned

tokenizeVars == <<tokenizeStr, currentState, chars, tokens, tokenizeI,
                  tokenizeIters, tokenizeDone>>

\* the small compiler of part_001 and part_002
compilerVars == <<walkVars, descentVars, tokenizeVars>>
notWalk == <<descentVars, tokenizeVars>>
notDescent == <<walkVars, tokenizeVars>>
notTokenize == <<walkVars, descentVars>>

\* the variables of Part IV
lateVars == <<watchVars, blockVars, collectVars, compilerVars>>
earlyVars == <<schedVars, reactVars, proxyVars, writeVars, keepAliveVars,
               parserVars, condenseVars>>
notWatch == <<earlyVars, blockVars, collectVars, compilerVars>>
notBlock == <<earlyVars, watchVars, collectVars, compilerVars>>
notCollect == <<earlyVars, watchVars, blockVars, compilerVars>>
notCompiler == <<earlyVars, watchVars, blockVars, collectVars>>

\* the variables of Part III
restVars == <<proxyVars, writeVars, keepAliveVars, parserVars, condenseVars,
              lateVars>>
notProxy == <<schedVars, reactVars, writeVars, keepAliveVars, parserVars,
              condenseVars, lateVars>>
notWrite == <<schedVars, reactVars, proxyVars, keepAliveVars, parserVars,
              condenseVars, lateVars>>
notKeepAlive == <<schedVars, reactVars, proxyVars, writeVars, parserVars,
                  condenseVars, lateVars>>
notParser == <<schedVars, reactVars, proxyVars, writeVars, keepAliveVars,
               condenseVars, lateVars>>
notCondense == <<schedVars, reactVars, proxyVars, writeVars, keepAliveVars,
                 parserVars, lateVars>>

vars == <<schedVars, reactVars, restVars>>

----------------------------------------------------------------------------
(* Bounds and the population of jobs *)

\* user code makes at most MaxOps calls that queue a job or a callback, take
\* a job back or stop a job in one behaviour; its other calls are not counted
MaxOps == 3

RECURSION_LIMIT == 100

\* The jobs user code may hand to the scheduler.  A SchedulerJob is a
\* function object with optional id, pre and allowRecurse (scheduler.ts:5-34):
\*   1  a component update job of the parent (id 1, may recurse)
\*   2  a component update job of the child  (id 2)
\*   3  a pre-flush watcher of the child     (id 2, pre, may recurse)
\*   4  a plain callback without id
Jobs == {1, 2, 3, 4}

SchedulerJob ==
    [j \in Jobs |->
        CASE j = 1 -> [hasId |-> TRUE,  id |-> 1, pre |-> FALSE, allowRecurse |-> TRUE]
          [] j = 2 -> [hasId |-> TRUE,  id |-> 2, pre |-> FALSE, allowRecurse |-> FALSE]
          [] j = 3 -> [hasId |-> TRUE,  id |-> 2, pre |-> TRUE,  allowRecurse |-> TRUE]
          [] j = 4 -> [hasId |-> FALSE, id |-> 0, pre |-> FALSE, allowRecurse |-> FALSE]]

\* The instance argument of flushPreFlushCbs: {} is "undefined", {u} an
\* instance with uid u
NoInstance == {}
Instances == {{2}}

\* The arrays queuePostFlushCb may be given (lists of lifecycle hooks)
PostArrays == {<<4, 2>>, <<2, 2>>}

----------------------------------------------------------------------------
(* Array helpers (0-based indices as in the source) *)

At(arr, i) == arr[i + 1]

\* Array.prototype.includes(x, fromIndex)
includes(arr, x, from) == \E p \in (from + 1)..Len(arr) : arr[p] = x

\* Array.prototype.indexOf(x), -1 when absent
indexOf(arr, x) ==
    IF \E p \in 1..Len(arr) : arr[p] = x
    THEN (CHOOSE p \in 1..Len(arr) : arr[p] = x /\ \A r \in 1..(p - 1) : arr[r] # x) - 1
    ELSE -1

\* arr.splice(i, 0, x): a start beyond the end appends
SpliceIn(arr, i, x) ==
    LET at == IF i > Len(arr) THEN Len(arr) ELSE i
    IN  SubSeq(arr, 1, at) \o <<x>> \o SubSeq(arr, at + 1, Len(arr))

\* arr.splice(i, 1)
SpliceOut(arr, i) == SubSeq(arr, 1, i) \o SubSeq(arr, i + 2, Len(arr))

\* [...new Set(arr)]: first occurrences, in order
RECURSIVE Dedupe(_)
Dedupe(arr) ==
    IF arr = <<>> THEN <<>>
    ELSE LET init == Dedupe(SubSeq(arr, 1, Len(arr) - 1))
             x    == arr[Len(arr)]
         IN  IF \E p \in 1..Len(init) : init[p] = x THEN init ELSE Append(init, x)

----------------------------------------------------------------------------
(* Pure functions of scheduler.ts *)

\* getId(a) - getId(b) with getId = Infinity for a job without id; the sign
\* only.  Infinity - Infinity is NaN, which sort() and === 0 treat as
\* "not less, not greater, not zero".
IdDiff(a, b) ==
    LET A == SchedulerJob[a]
        B == SchedulerJob[b]
    IN  CASE A.hasId /\ B.hasId   -> A.id - B.id
          [] A.hasId /\ ~B.hasId  -> -1
          [] ~A.hasId /\ B.hasId  -> 1
          [] OTHER                -> 0

DiffIsZero(a, b) == SchedulerJob[a].hasId /\ SchedulerJob[b].hasId
                    /\ SchedulerJob[a].id = SchedulerJob[b].id

\* a comparator that orders by descending id
comparatorDescending(a, b) == IdDiff(b, a)

\* a comparator that looks at the ids only
comparatorIdOnly(a, b) == IdDiff(a, b)

comparator(a, b) ==
    IF DiffIsZero(a, b) /\ SchedulerJob[a].pre /\ ~SchedulerJob[b].pre THEN -1
    ELSE IF DiffIsZero(a, b) /\ SchedulerJob[b].pre /\ ~SchedulerJob[a].pre THEN 1
    ELSE IdDiff(a, b)

\* a post-flush comparator that orders by descending id
postComparatorDescending(a, b) == IdDiff(b, a)

postComparator(a, b) == IdDiff(a, b)

\* Array.prototype.sort(cmp) is stable: insertion sort, cmp > 0 means "after".
\* which = "queue" sorts with comparator, "post" with (a, b) => getId(a) - getId(b)
Compare(which, a, b) == IF which = "queue" THEN comparator(a, b) ELSE postComparator(a, b)

RECURSIVE InsertSorted(_, _, _)
InsertSorted(sorted, x, which) ==
    IF sorted = <<>> THEN <<x>>
    ELSE IF Compare(which, sorted[Len(sorted)], x) > 0
         THEN Append(InsertSorted(SubSeq(sorted, 1, Len(sorted) - 1), x, which),
                     sorted[Len(sorted)])
         ELSE Append(sorted, x)

RECURSIVE sort(_, _)
sort(arr, which) ==
    IF arr = <<>> THEN <<>>
    ELSE InsertSorted(sort(SubSeq(arr, 1, Len(arr) - 1), which), arr[Len(arr)], which)

\* the binary search of findInsertionIndex over queue q with flushIndex fi
RECURSIVE BinarySearch(_, _, _, _)
BinarySearch(q, id, start, end) ==
    IF start < end
    THEN LET middle    == (start + end) \div 2
             middleJob == SchedulerJob[At(q, middle)]
         IN  IF (middleJob.hasId /\ middleJob.id < id)
                \/ (middleJob.hasId /\ middleJob.id = id /\ middleJob.pre)
             THEN BinarySearch(q, id, middle + 1, end)
             ELSE BinarySearch(q, id, start, middle)
    ELSE start

\* an insertion right after the job that is running
findInsertionIndexNext(q, fi, id) == fi + 1

findInsertionIndex(q, fi, id) == BinarySearch(q, id, fi + 1, Len(q))

\* checkRecursiveUpdates(seen, fn): the new map and whether it returned true
EmptySeen == [j \in Jobs |-> 0]

\* a guard that counts nothing and never cuts
checkRecursiveUpdatesNever(map, fn) == [cut |-> FALSE, map |-> map]

checkRecursiveUpdates(map, fn) ==
    IF map[fn] = 0 THEN [cut |-> FALSE, map |-> [map EXCEPT ![fn] = 1]]
    ELSE IF map[fn] > RECURSION_LIMIT THEN [cut |-> TRUE, map |-> map]
    ELSE [cut |-> FALSE, map |-> [map EXCEPT ![fn] = map[fn] + 1]]

----------------------------------------------------------------------------
(* The call stack *)

\* Frame kinds: "flushJobs" (pc: loop | call | post | tail), "job" (a queue
\* job called by flushJobs), "flushPre" (flushPreFlushCbs, loop index i),
\* "pre" (a callback called by flushPreFlushCbs), "flushPost"
\* (flushPostFlushCbs) and "postcb" (a callback called by it).
Frame(k, pc, j, i, inst, map) ==
    [k |-> k, pc |-> pc, j |-> j, i |-> i, inst |-> inst, seen |-> map]

FlushJobsFrame(pc) == Frame("flushJobs", pc, 0, 0, NoInstance, EmptySeen)
UserFrame(k, j)    == Frame(k, "run", j, 0, NoInstance, EmptySeen)

Depth  == Len(stack)
Top    == stack[Depth]
Pop    == SubSeq(stack, 1, Depth - 1)
Push(f) == Append(stack, f)
SetTop(f) == [stack EXCEPT ![Depth] = f]

UserKinds == {"job", "pre", "postcb"}
InUserCode == IF Depth = 0 THEN TRUE ELSE Top.k \in UserKinds

\* user code (a callback, or code outside any flush) may call the scheduler
CanCall == InUserCode

\* and may queue while the budget lasts
CanQueue == CanCall /\ ops < MaxOps

\* the frame of flushJobs, when a flush is on the stack, is the outermost one
Flushing == IF Depth = 0 THEN FALSE ELSE stack[1].k = "flushJobs"

\* 0-based index of the first queue entry that has not started: while the
\* loop of flushJobs is inside the call of queue[flushIndex] that entry has
\* started, in every other state the entries from flushIndex on have not
FirstUnstarted ==
    IF Flushing
    THEN (IF stack[1].pc = "call" THEN flushIndex + 1 ELSE flushIndex)
    ELSE flushIndex

Unstarted == {p \in 1..Len(queue) : p > FirstUnstarted}

\* the jobs waiting in the main queue
OwedJobs == {queue[p] : p \in Unstarted}

\* the state of the module after it is loaded; build is the set of values
\* of __DEV__ considered
InitScheduler(build) ==
    /\ DEV \in build
    /\ isFlushing = FALSE
    /\ isFlushPending = FALSE
    /\ queue = <<>>
    /\ flushIndex = 0
    /\ pendingPostFlushCbs = <<>>
    /\ activePostFlushCbs = [isNull |-> TRUE, items |-> <<>>]
    /\ postFlushIndex = 0
    /\ flushMicrotasks = 0
    /\ seen = EmptySeen
    /\ jobActive = [j \in Jobs |-> TRUE]
    /\ stack = <<>>
    /\ errorCount = 0
    /\ ops = 0
    /\ runs = [j \in Jobs |-> 0]
    /\ looped = FALSE
    /\ threw = FALSE
    /\ invalidated = {}

----------------------------------------------------------------------------
(* queueJob, queueFlush, invalidateJob, queuePostFlushCb *)

\* the dedupe test of queueJob (scheduler.ts:99-105)
queueJobAccepts(job) ==
    IF Len(queue) = 0 THEN TRUE
    ELSE ~includes(queue, job,
                   IF isFlushing /\ SchedulerJob[job].allowRecurse
                   THEN flushIndex + 1 ELSE flushIndex)

\* the queue after an accepted queueJob (scheduler.ts:106-110)
queueJobInsert(job) ==
    IF ~SchedulerJob[job].hasId
    THEN Append(queue, job)
    ELSE SpliceIn(queue, findInsertionIndex(queue, flushIndex, SchedulerJob[job].id), job)

\* queueFlush schedules the flush microtask (scheduler.ts:115-120)
queueFlushNeeded == ~isFlushing /\ ~isFlushPending

\* a queueFlush that schedules a microtask at every call
queueFlushAlways ==
    /\ isFlushPending' = TRUE
    /\ flushMicrotasks' = flushMicrotasks + 1

queueFlush ==
    IF queueFlushNeeded
    THEN /\ isFlushPending' = TRUE
         /\ flushMicrotasks' = flushMicrotasks + 1
    ELSE UNCHANGED <<isFlushPending, flushMicrotasks>>

queueJobBody(job) ==
    /\ IF queueJobAccepts(job)
       THEN /\ queue' = queueJobInsert(job)
            /\ queueFlush
       ELSE UNCHANGED <<queue, isFlushPending, flushMicrotasks>>
    /\ invalidated' = invalidated \ {job}
    /\ UNCHANGED <<restVars, reactVars, DEV, isFlushing, flushIndex, pendingPostFlushCbs,
                   activePostFlushCbs, postFlushIndex, seen, jobActive,
                   errorCount, runs, looped, threw>>

\* user code calls queueJob(job)
queueJob(job) ==
    /\ CanQueue
    /\ ops' = ops + 1
    /\ queueJobBody(job)
    /\ UNCHANGED stack

\* the queue after invalidateJob (scheduler.ts:122-127)
invalidateJobResult(job) ==
    LET i == indexOf(queue, job)
    IN  IF i > flushIndex THEN SpliceOut(queue, i) ELSE queue

invalidateJob(job) ==
    /\ CanQueue
    /\ ops' = ops + 1
    /\ queue' = invalidateJobResult(job)
    /\ invalidated' = IF job \in OwedJobs THEN invalidated \cup {job} ELSE invalidated
    /\ UNCHANGED <<restVars, reactVars, DEV, isFlushing, isFlushPending, flushIndex,
                   pendingPostFlushCbs, activePostFlushCbs, postFlushIndex,
                   flushMicrotasks, seen, jobActive, stack, errorCount,
                   runs, looped, threw>>

\* the dedupe test of queuePostFlushCb for a single callback (scheduler.ts:131-137)
queuePostFlushCbAccepts(cb) ==
    IF activePostFlushCbs.isNull THEN TRUE
    ELSE ~includes(activePostFlushCbs.items, cb,
                   IF SchedulerJob[cb].allowRecurse
                   THEN postFlushIndex + 1 ELSE postFlushIndex)

\* queuePostFlushCb(cb) with a single callback
queuePostFlushCbBody(cb) ==
    /\ pendingPostFlushCbs' =
           IF queuePostFlushCbAccepts(cb)
           THEN Append(pendingPostFlushCbs, cb) ELSE pendingPostFlushCbs
    /\ queueFlush
    /\ UNCHANGED <<restVars, reactVars, DEV, invalidated, isFlushing, queue, flushIndex, activePostFlushCbs,
                   postFlushIndex, seen, jobActive, errorCount,
                   runs, looped, threw>>

\* user code calls queuePostFlushCb(cb)
queuePostFlushCb(cb) ==
    /\ CanQueue
    /\ ops' = ops + 1
    /\ queuePostFlushCbBody(cb)
    /\ UNCHANGED stack

\* queuePostFlushCb(cbs) with an array of callbacks: no dedupe (scheduler.ts:140-145)
queuePostFlushCbArray(cbs) ==
    /\ CanQueue
    /\ ops' = ops + 1
    /\ pendingPostFlushCbs' = pendingPostFlushCbs \o cbs
    /\ queueFlush
    /\ UNCHANGED <<restVars, reactVars, DEV, invalidated, isFlushing, queue, flushIndex, activePostFlushCbs,
                   postFlushIndex, seen, jobActive, stack, errorCount,
                   runs, looped, threw>>

\* effect.stop() and the unmount of a component set job.active = false
deactivate(job) ==
    /\ CanQueue
    /\ jobActive[job]
    /\ ops' = ops + 1
    /\ jobActive' = [jobActive EXCEPT ![job] = FALSE]
    /\ UNCHANGED <<restVars, reactVars, DEV, invalidated, isFlushing, isFlushPending, queue, flushIndex,
                   pendingPostFlushCbs, activePostFlushCbs, postFlushIndex,
                   flushMicrotasks, seen, stack, errorCount, runs, looped, threw>>

----------------------------------------------------------------------------
(* flushPostFlushCbs (scheduler.ts:188-222) *)

\* [...new Set(pendingPostFlushCbs)].sort((a, b) => getId(a) - getId(b))
deduped == sort(Dedupe(pendingPostFlushCbs), "post")

\* the CountMap a flushPostFlushCbs frame uses: the caller's or its own
PostSeen == IF Top.pc = "shared" THEN seen ELSE Top.seen

\* user code calls flushPostFlushCbs() (no seen argument)
flushPostFlushCbs ==
    /\ CanCall
    /\ UNCHANGED ops
    /\ IF pendingPostFlushCbs = <<>>
       THEN UNCHANGED <<pendingPostFlushCbs, activePostFlushCbs, postFlushIndex, stack>>
       ELSE /\ pendingPostFlushCbs' = <<>>
            /\ IF ~activePostFlushCbs.isNull
               THEN \* #1947: a nested call adds to the active list and returns
                    /\ activePostFlushCbs' =
                         [activePostFlushCbs EXCEPT !.items = @ \o deduped]
                    /\ UNCHANGED <<postFlushIndex, stack>>
               ELSE /\ activePostFlushCbs' = [isNull |-> FALSE, items |-> deduped]
                    /\ postFlushIndex' = 0
                    /\ stack' = Push(Frame("flushPost", "own", 0, 0, NoInstance, EmptySeen))
    /\ UNCHANGED <<restVars, reactVars, DEV, invalidated, isFlushing, isFlushPending, queue, flushIndex,
                   flushMicrotasks, seen, jobActive, errorCount, runs, looped, threw>>

\* one iteration of the loop that calls activePostFlushCbs[postFlushIndex]
postLoopCall ==
    /\ Depth > 0 /\ Top.k = "flushPost"
    /\ postFlushIndex < Len(activePostFlushCbs.items)
    /\ LET cb  == At(activePostFlushCbs.items, postFlushIndex)
           chk == checkRecursiveUpdates(PostSeen, cb)
       IN  /\ ~(DEV /\ chk.cut)
           /\ IF ~DEV THEN UNCHANGED seen /\ stack' = Append(stack, UserFrame("postcb", cb))
              ELSE IF Top.pc = "shared"
                   THEN seen' = chk.map /\ stack' = Append(stack, UserFrame("postcb", cb))
                   ELSE /\ UNCHANGED seen
                        /\ stack' = Append(SetTop([Top EXCEPT !.seen = chk.map]),
                                           UserFrame("postcb", cb))
    /\ runs' = [runs EXCEPT ![At(activePostFlushCbs.items, postFlushIndex)] = @ + 1]
    /\ UNCHANGED <<restVars, reactVars, DEV, invalidated, isFlushing, isFlushPending, queue, flushIndex,
                   pendingPostFlushCbs, activePostFlushCbs, postFlushIndex,
                   flushMicrotasks, jobActive, errorCount, ops, looped, threw>>

\* the recursion guard skips the callback (continue)
postLoopCut ==
    /\ Depth > 0 /\ Top.k = "flushPost"
    /\ postFlushIndex < Len(activePostFlushCbs.items)
    /\ DEV
    /\ checkRecursiveUpdates(PostSeen, At(activePostFlushCbs.items, postFlushIndex)).cut
    /\ errorCount' = errorCount + 1
    /\ postFlushIndex' = postFlushIndex + 1
    /\ UNCHANGED <<restVars, reactVars, DEV, invalidated, isFlushing, isFlushPending, queue, flushIndex,
                   pendingPostFlushCbs, activePostFlushCbs, flushMicrotasks,
                   seen, jobActive, stack, ops, runs, looped, threw>>

\* a post-flush callback returns
postCbReturn ==
    /\ Depth > 0 /\ Top.k = "postcb"
    /\ stack' = Pop
    /\ postFlushIndex' = postFlushIndex + 1
    /\ UNCHANGED <<restVars, reactVars, DEV, invalidated, isFlushing, isFlushPending, queue, flushIndex,
                   pendingPostFlushCbs, activePostFlushCbs, flushMicrotasks,
                   seen, jobActive, errorCount, ops, runs, looped, threw>>

\* the loop is over: activePostFlushCbs = null, postFlushIndex = 0, return
postLoopDone ==
    /\ Depth > 0 /\ Top.k = "flushPost"
    /\ postFlushIndex >= Len(activePostFlushCbs.items)
    /\ activePostFlushCbs' = [isNull |-> TRUE, items |-> <<>>]
    /\ postFlushIndex' = 0
    /\ stack' = IF Depth > 1 /\ stack[Depth - 1].k = "flushJobs"
                THEN [Pop EXCEPT ![Depth - 1] = FlushJobsFrame("tail")]
                ELSE Pop
    /\ UNCHANGED <<restVars, reactVars, DEV, invalidated, isFlushing, isFlushPending, queue, flushIndex,
                   pendingPostFlushCbs, flushMicrotasks, seen, jobActive,
                   errorCount, ops, runs, looped, threw>>

----------------------------------------------------------------------------
(* flushPreFlushCbs (scheduler.ts:149-172) *)

\* user code calls flushPreFlushCbs(instance) (no seen argument)
flushPreFlushCbs(instance) ==
    /\ CanCall
    /\ UNCHANGED ops
    /\ stack' = Push(Frame("flushPre", "loop", 0,
                           IF isFlushing THEN flushIndex + 1 ELSE 0,
                           instance, EmptySeen))
    /\ UNCHANGED <<restVars, reactVars, DEV, invalidated, isFlushing, isFlushPending, queue, flushIndex,
                   pendingPostFlushCbs, activePostFlushCbs, postFlushIndex,
                   flushMicrotasks, seen, jobActive, errorCount, runs, looped, threw>>

\* cb && cb.pre, and not (instance && cb.id !== instance.uid)
preSelects(cb, instance) ==
    /\ SchedulerJob[cb].pre
    /\ IF instance = NoInstance THEN TRUE
       ELSE SchedulerJob[cb].hasId /\ SchedulerJob[cb].id \in instance

\* an iteration that leaves queue[i] alone
preLoopSkip ==
    /\ Depth > 0 /\ Top.k = "flushPre"
    /\ Top.i < Len(queue)
    /\ ~preSelects(At(queue, Top.i), Top.inst)
    /\ stack' = SetTop([Top EXCEPT !.i = @ + 1])
    /\ UNCHANGED <<restVars, reactVars, DEV, invalidated, isFlushing, isFlushPending, queue, flushIndex,
                   pendingPostFlushCbs, activePostFlushCbs, postFlushIndex,
                   flushMicrotasks, seen, jobActive, errorCount, ops, runs,
                   looped, threw>>

\* the recursion guard skips the callback (continue)
preLoopCut ==
    /\ Depth > 0 /\ Top.k = "flushPre"
    /\ Top.i < Len(queue)
    /\ preSelects(At(queue, Top.i), Top.inst)
    /\ DEV
    /\ checkRecursiveUpdates(Top.seen, At(queue, Top.i)).cut
    /\ errorCount' = errorCount + 1
    /\ stack' = SetTop([Top EXCEPT !.i = @ + 1])
    /\ UNCHANGED <<restVars, reactVars, DEV, invalidated, isFlushing, isFlushPending, queue, flushIndex,
                   pendingPostFlushCbs, activePostFlushCbs, postFlushIndex,
                   flushMicrotasks, seen, jobActive, ops, runs, looped, threw>>

\* queue.splice(i, 1); i--; cb()
preLoopCall ==
    /\ Depth > 0 /\ Top.k = "flushPre"
    /\ Top.i < Len(queue)
    /\ LET cb  == At(queue, Top.i)
           chk == checkRecursiveUpdates(Top.seen, cb)
       IN  /\ preSelects(cb, Top.inst)
           /\ ~(DEV /\ chk.cut)
           /\ queue' = SpliceOut(queue, Top.i)
           /\ stack' = Append(SetTop([Top EXCEPT !.i = @ - 1,
                                                 !.seen = IF DEV THEN chk.map ELSE @]),
                              UserFrame("pre", cb))
           /\ runs' = [runs EXCEPT ![cb] = @ + 1]
    /\ UNCHANGED <<restVars, reactVars, DEV, invalidated, isFlushing, isFlushPending, flushIndex,
                   pendingPostFlushCbs, activePostFlushCbs, postFlushIndex,
                   flushMicrotasks, seen, jobActive, errorCount, ops,
                   looped, threw>>

\* a pre-flush callback returns; the loop does i++
preCbReturn ==
    /\ Depth > 0 /\ Top.k = "pre"
    /\ stack' = [Pop EXCEPT ![Depth - 1] = [@ EXCEPT !.i = @ + 1]]
    /\ UNCHANGED <<restVars, reactVars, DEV, invalidated, isFlushing, isFlushPending, queue, flushIndex,
                   pendingPostFlushCbs, activePostFlushCbs, postFlushIndex,
                   flushMicrotasks, seen, jobActive, errorCount, ops, runs,
                   looped, threw>>

preLoopDone ==
    /\ Depth > 0 /\ Top.k = "flushPre"
    /\ Top.i >= Len(queue)
    /\ stack' = Pop
    /\ UNCHANGED <<restVars, reactVars, DEV, invalidated, isFlushing, isFlushPending, queue, flushIndex,
                   pendingPostFlushCbs, activePostFlushCbs, postFlushIndex,
                   flushMicrotasks, seen, jobActive, errorCount, ops, runs,
                   looped, threw>>

----------------------------------------------------------------------------
(* flushJobs (scheduler.ts:236-285) *)

\* the flush microtask runs: only when no JavaScript is on the stack
flushJobsStart ==
    /\ Depth = 0
    /\ flushMicrotasks > 0
    /\ flushMicrotasks' = flushMicrotasks - 1
    /\ isFlushPending' = FALSE
    /\ isFlushing' = TRUE
    /\ seen' = EmptySeen
    /\ queue' = sort(queue, "queue")
    /\ flushIndex' = 0
    /\ stack' = <<FlushJobsFrame("loop")>>
    /\ runs' = [j \in Jobs |-> 0]
    /\ looped' = FALSE
    /\ threw' = FALSE
    /\ errorCount' = 0
    /\ UNCHANGED <<restVars, reactVars, DEV, invalidated, pendingPostFlushCbs, activePostFlushCbs, postFlushIndex,
                   jobActive, ops>>

InLoop == Depth > 0 /\ Top.k = "flushJobs" /\ Top.pc = "loop"

\* a loop that calls every job
loopRunsAny(job) == TRUE

\* job && job.active !== false
loopRuns(job) == jobActive[job]

\* callWithErrorHandling(job, null, ErrorCodes.SCHEDULER) is entered
loopCall ==
    /\ InLoop
    /\ flushIndex < Len(queue)
    /\ LET job == At(queue, flushIndex)
           chk == checkRecursiveUpdates(seen, job)
       IN  /\ loopRuns(job)
           /\ ~(DEV /\ chk.cut)
           /\ seen' = IF DEV THEN chk.map ELSE seen
           /\ stack' = Append(SetTop(FlushJobsFrame("call")), UserFrame("job", job))
           /\ runs' = [runs EXCEPT ![job] = @ + 1]
    /\ UNCHANGED <<restVars, reactVars, DEV, invalidated, isFlushing, isFlushPending, queue, flushIndex,
                   pendingPostFlushCbs, activePostFlushCbs, postFlushIndex,
                   flushMicrotasks, jobActive, errorCount, ops, looped, threw>>

\* an inactive job is passed over
loopSkip ==
    /\ InLoop
    /\ flushIndex < Len(queue)
    /\ ~loopRuns(At(queue, flushIndex))
    /\ flushIndex' = flushIndex + 1
    /\ UNCHANGED <<restVars, reactVars, DEV, invalidated, isFlushing, isFlushPending, queue,
                   pendingPostFlushCbs, activePostFlushCbs, postFlushIndex,
                   flushMicrotasks, seen, jobActive, stack, errorCount, ops,
                   runs, looped, threw>>

\* __DEV__ && check(job): the recursion guard reports and passes over the job
loopCut ==
    /\ InLoop
    /\ flushIndex < Len(queue)
    /\ loopRuns(At(queue, flushIndex))
    /\ DEV
    /\ checkRecursiveUpdates(seen, At(queue, flushIndex)).cut
    /\ errorCount' = errorCount + 1
    /\ flushIndex' = flushIndex + 1
    /\ UNCHANGED <<restVars, reactVars, DEV, invalidated, isFlushing, isFlushPending, queue,
                   pendingPostFlushCbs, activePostFlushCbs, postFlushIndex,
                   flushMicrotasks, seen, jobActive, stack, ops, runs, looped, threw>>

\* callWithErrorHandling(fn, instance, type) of errorHandling.ts, the common
\* wrapper of user code: an exception of fn is caught and handed to
\* handleError, and the wrapper returns normally
callWithErrorHandling(thrown) == [handled |-> thrown, rethrown |-> FALSE]

\* what flushJobs would do if it called the job bare: the exception leaves
\* the try block for the finally block
afterJobUnguarded(thrown) ==
    /\ stack' = [Pop EXCEPT ![Depth - 1] =
                    FlushJobsFrame(IF thrown THEN "finally" ELSE "loop")]
    /\ flushIndex' = IF thrown THEN flushIndex ELSE flushIndex + 1
    /\ errorCount' = errorCount
    /\ threw' = (threw \/ thrown)

\* what flushJobs does when callWithErrorHandling(job, ...) is over: the loop
\* goes on with flushIndex++, or an exception takes it to the finally block
afterJob(thrown) ==
    LET r == callWithErrorHandling(thrown)
    IN  /\ stack' = [Pop EXCEPT ![Depth - 1] =
                        FlushJobsFrame(IF r.rethrown THEN "finally" ELSE "loop")]
        /\ flushIndex' = IF r.rethrown THEN flushIndex ELSE flushIndex + 1
        /\ errorCount' = IF r.handled THEN errorCount + 1 ELSE errorCount
        /\ threw' = (threw \/ thrown)

\* the job returns normally
jobReturn ==
    /\ Depth > 0 /\ Top.k = "job"
    /\ afterJob(FALSE)
    /\ UNCHANGED <<restVars, reactVars, DEV, invalidated, isFlushing, isFlushPending, queue,
                   pendingPostFlushCbs, activePostFlushCbs, postFlushIndex,
                   flushMicrotasks, seen, jobActive, ops, runs, looped>>

\* the job throws: callWithErrorHandling catches and calls handleError
jobThrow ==
    /\ Depth > 0 /\ Top.k = "job"
    /\ afterJob(TRUE)
    /\ UNCHANGED <<restVars, reactVars, DEV, invalidated, isFlushing, isFlushPending, queue,
                   pendingPostFlushCbs, activePostFlushCbs, postFlushIndex,
                   flushMicrotasks, seen, jobActive, ops, runs, looped>>

\* the loop condition fails: the finally block up to the call of the
\* post-flush callbacks
flushJobsFinally ==
    /\ Depth > 0 /\ Top.k = "flushJobs"
    /\ IF Top.pc = "loop" THEN flushIndex >= Len(queue) ELSE Top.pc = "finally"
    /\ flushIndex' = 0
    /\ queue' = <<>>
    /\ IF pendingPostFlushCbs = <<>>
       THEN /\ stack' = SetTop(FlushJobsFrame("tail"))
            /\ UNCHANGED <<pendingPostFlushCbs, activePostFlushCbs, postFlushIndex>>
       ELSE /\ pendingPostFlushCbs' = <<>>
            /\ IF ~activePostFlushCbs.isNull
               THEN /\ activePostFlushCbs' =
                         [activePostFlushCbs EXCEPT !.items = @ \o deduped]
                    /\ stack' = SetTop(FlushJobsFrame("tail"))
                    /\ UNCHANGED postFlushIndex
               ELSE /\ activePostFlushCbs' = [isNull |-> FALSE, items |-> deduped]
                    /\ postFlushIndex' = 0
                    /\ stack' = Append(SetTop(FlushJobsFrame("post")),
                                       Frame("flushPost", "shared", 0, 0,
                                             NoInstance, EmptySeen))
    /\ UNCHANGED <<restVars, reactVars, DEV, invalidated, isFlushing, isFlushPending, flushMicrotasks, seen,
                   jobActive, errorCount, ops, runs, looped, threw>>

InTail == Depth > 0 /\ Top.k = "flushJobs" /\ Top.pc = "tail"

\* a test that looks at the main queue only
flushJobsRefilledQueueOnly == queue # <<>>

\* queue.length || pendingPostFlushCbs.length
flushJobsRefilled == ~(queue = <<>> /\ pendingPostFlushCbs = <<>>)

\* isFlushing = false, then flushJobs(seen) again: a tail call
flushJobsAgain ==
    /\ InTail
    /\ flushJobsRefilled
    /\ isFlushPending' = FALSE
    /\ isFlushing' = TRUE
    /\ queue' = sort(queue, "queue")
    /\ flushIndex' = 0
    /\ stack' = SetTop(FlushJobsFrame("loop"))
    /\ looped' = TRUE
    /\ UNCHANGED <<restVars, reactVars, DEV, invalidated, pendingPostFlushCbs, activePostFlushCbs, postFlushIndex,
                   flushMicrotasks, seen, jobActive, errorCount, ops, runs, threw>>

\* isFlushing = false and nothing was queued meanwhile: the flush is over
flushJobsReturn ==
    /\ InTail
    /\ ~flushJobsRefilled
    /\ isFlushing' = FALSE
    /\ stack' = Pop
    /\ invalidated' = {}
    /\ UNCHANGED <<restVars, reactVars, DEV, isFlushPending, queue, flushIndex,
                   pendingPostFlushCbs, activePostFlushCbs, postFlushIndex,
                   flushMicrotasks, seen, jobActive, errorCount, ops, runs,
                   looped, threw>>

----------------------------------------------------------------------------
(* Part II: the reactivity kernel.  One reactive object with the property  *)
(* x and one reactive array; deps are named by their key.                  *)

Effects == {1, 2}
NoEffect == 0

Keys == {"x", "length", "0"}
Targets == {"obj", "arr"}
TargetOf(key) == IF key = "x" THEN "obj" ELSE "arr"

\* the key of index n of the array; only index 0 is ever read
IndexKey(n) == IF n = 0 THEN "0" ELSE "other"
IsIndexKey(key) == key \in {"0", "other"}

\* DirtyLevels (part_005:30-34)
NotDirty == 0
MaybeDirty == 1
Dirty == 2

\* dep.get(effect) of an effect the dep does not hold
Undefined == -1

\* a Dep: a Map from effect to track id, iterated in insertion order
EmptyDep == [keys |-> <<>>, id |-> [e \in Effects |-> Undefined]]

Without(seq, e) == LET Keep(x) == x # e IN SelectSeq(seq, Keep)
DepHas(dep, e) == \E p \in 1..Len(dep.keys) : dep.keys[p] = e
DepSet(dep, e, id) ==
    [keys |-> IF DepHas(dep, e) THEN dep.keys ELSE Append(dep.keys, e),
     id   |-> [dep.id EXCEPT ![e] = id]]
DepDelete(dep, e) ==
    [keys |-> Without(dep.keys, e), id |-> [dep.id EXCEPT ![e] = Undefined]]

\* a new ReactiveEffect (part_005:64-112)
NewEffect(recurse) ==
    [active |-> TRUE, deps |-> <<>>, allowRecurse |-> recurse,
     dirtyLevel |-> Dirty, trackId |-> 0, runnings |-> 0,
     shouldSchedule |-> FALSE, depsLength |-> 0]

\* The state of the kernel as one record, for the functions below:
\* aE activeEffect, sT shouldTrack, pS pauseScheduleStack, tS trackStack,
\* q queueEffectSchedulers, eff the effects, tm targetMap, sch scheduled,
\* trg triggerCalls
Kernel ==
    [aE |-> activeEffect, sT |-> shouldTrack, pS |-> pauseScheduleStack,
     tS |-> trackStack, q |-> queueEffectSchedulers, eff |-> effect,
     tm |-> targetMap, sch |-> scheduled, trg |-> triggerCalls]

\* the kernel as top-level user code finds it
Entered == [Kernel EXCEPT !.sch = {}]

SetKernel(S) ==
    /\ activeEffect' = S.aE
    /\ shouldTrack' = S.sT
    /\ pauseScheduleStack' = S.pS
    /\ trackStack' = S.tS
    /\ queueEffectSchedulers' = S.q
    /\ effect' = S.eff
    /\ targetMap' = S.tm
    /\ scheduled' = S.sch
    /\ triggerCalls' = S.trg

preCleanupEffect(E) == [E EXCEPT !.trackId = @ + 1, !.depsLength = 0]

\* a cleanupDepEffect that deletes the effect and leaves the dep in its
\* depsMap
cleanupDepEffectKeep(tm, key, e, trackId) ==
    LET dep == tm.dep[key]
    IN  IF dep.id[e] # Undefined /\ trackId # dep.id[e]
        THEN [tm EXCEPT !.dep[key] = DepDelete(dep, e)]
        ELSE tm

\* cleanupDepEffect(dep, effect) on the dep of key, as a new targetMap; the
\* cleanup of a dep is () => depsMap.delete(key) (reactiveEffect.ts:59):
\* tm.has holds the keys whose dep is in the depsMap of its target
cleanupDepEffect(tm, key, e, trackId) ==
    LET dep == tm.dep[key]
    IN  IF dep.id[e] # Undefined /\ trackId # dep.id[e]
        THEN [tm EXCEPT !.dep[key] = DepDelete(dep, e),
                        !.has = IF DepDelete(dep, e).keys = <<>>
                                THEN @ \ {key} ELSE @]
        ELSE tm

\* the loop of postCleanupEffect from index i (0-based) on
RECURSIVE CleanupFrom(_, _, _, _, _)
CleanupFrom(tm, deps, i, e, trackId) ==
    IF i >= Len(deps) THEN tm
    ELSE CleanupFrom(cleanupDepEffect(tm, deps[i + 1], e, trackId),
                     deps, i + 1, e, trackId)

\* a postCleanupEffect that leaves the deps past _depsLength alone
postCleanupEffectNone(S, e) == S

postCleanupEffect(S, e) ==
    LET E == S.eff[e]
    IN  IF Len(E.deps) > E.depsLength
        THEN [S EXCEPT !.tm = CleanupFrom(S.tm, E.deps, E.depsLength, e, E.trackId),
                       !.eff[e].deps = SubSeq(E.deps, 1, E.depsLength)]
        ELSE S

\* deps[i] = key (0-based i, at most the length)
AssignAt(deps, i, key) ==
    IF i >= Len(deps) THEN Append(deps, key) ELSE [deps EXCEPT ![i + 1] = key]

trackEffect(S, e, key) ==
    LET E   == S.eff[e]
        dep == S.tm.dep[key]
    IN  IF dep.id[e] # E.trackId
        THEN LET tm1    == [S.tm EXCEPT !.dep[key] = DepSet(dep, e, E.trackId)]
                 hasOld == E.depsLength < Len(E.deps)
                 oldDep == IF hasOld THEN E.deps[E.depsLength + 1] ELSE "none"
             IN  IF oldDep # key
                 THEN [S EXCEPT
                         !.tm = IF hasOld
                                THEN cleanupDepEffect(tm1, oldDep, e, E.trackId)
                                ELSE tm1,
                         !.eff[e].deps = AssignAt(E.deps, E.depsLength, key),
                         !.eff[e].depsLength = E.depsLength + 1]
                 ELSE [S EXCEPT !.tm = tm1,
                                !.eff[e].depsLength = E.depsLength + 1]
        ELSE S

\* track(target, type, key) (reactiveEffect.ts:41-74)
track(S, key) ==
    IF S.sT /\ S.aE # NoEffect
    THEN trackEffect([S EXCEPT !.tm.maps = @ \cup {TargetOf(key)},
                               !.tm.has = @ \cup {key}], S.aE, key)
    ELSE S

\* a loop of triggerEffects that calls the trigger callback of every effect
\* it marks
RECURSIVE MarkFromAlways(_, _, _, _)
MarkFromAlways(S, key, dirtyLevel, p) ==
    LET dep == S.tm.dep[key]
    IN  IF p > Len(dep.keys) THEN S
        ELSE LET e == dep.keys[p]
                 E == S.eff[e]
             IN  IF E.dirtyLevel < dirtyLevel /\ dep.id[e] = E.trackId
                 THEN MarkFromAlways([S EXCEPT
                                  !.eff[e].dirtyLevel = dirtyLevel,
                                  !.eff[e].shouldSchedule = TRUE,
                                  !.trg = @ \cup {e}],
                               key, dirtyLevel, p + 1)
                 ELSE MarkFromAlways(S, key, dirtyLevel, p + 1)

\* the loop of triggerEffects over dep.keys() from position p on; the
\* trigger callback of an effect made by effect() is NOOP: a callback that
\* returns
RECURSIVE MarkFrom(_, _, _, _)
MarkFrom(S, key, dirtyLevel, p) ==
    LET dep == S.tm.dep[key]
    IN  IF p > Len(dep.keys) THEN S
        ELSE LET e == dep.keys[p]
                 E == S.eff[e]
             IN  IF E.dirtyLevel < dirtyLevel /\ dep.id[e] = E.trackId
                 THEN MarkFrom([S EXCEPT
                                  !.eff[e].dirtyLevel = dirtyLevel,
                                  !.eff[e].shouldSchedule =
                                      IF E.dirtyLevel = NotDirty THEN TRUE ELSE @,
                                  !.trg =
                                      IF E.dirtyLevel = NotDirty
                                      THEN @ \cup {e} ELSE @],
                               key, dirtyLevel, p + 1)
                 ELSE MarkFrom(S, key, dirtyLevel, p + 1)

\* every effect has the scheduler that effect() gives it
RECURSIVE scheduleEffectsFrom(_, _, _)
scheduleEffectsFrom(S, key, p) ==
    LET dep == S.tm.dep[key]
    IN  IF p > Len(dep.keys) THEN S
        ELSE LET e == dep.keys[p]
                 E == S.eff[e]
             IN  IF /\ E.shouldSchedule
                    /\ (E.runnings = 0 \/ E.allowRecurse)
                    /\ dep.id[e] = E.trackId
                 THEN scheduleEffectsFrom(
                          [S EXCEPT !.eff[e].shouldSchedule = FALSE,
                                    !.q = Append(@, e),
                                    !.sch = @ \cup {e}], key, p + 1)
                 ELSE scheduleEffectsFrom(S, key, p + 1)


\* a scheduleEffects that enqueues nothing
scheduleEffectsNone(S, key) == S

scheduleEffects(S, key) == scheduleEffectsFrom(S, key, 1)

\* triggerEffects(dep, dirtyLevel) called from trigger, whose pause keeps
\* pauseScheduleStack above 0: the resetScheduling at its end runs nothing
triggerEffects(S, key, dirtyLevel) ==
    LET paused == [S EXCEPT !.pS = @ + 1, !.trg = {}]
        done   == scheduleEffects(MarkFrom(paused, key, dirtyLevel, 1), key)
    IN  [done EXCEPT !.pS = @ - 1]

\* the deps trigger collects for a SET of x or an ADD of an index of the
\* array (reactiveEffect.ts:98-165); a key nobody tracked has no dep
TriggerDeps(type, key) ==
    LET all == IF type = "add" /\ IsIndexKey(key) THEN <<key, "length">> ELSE <<key>>
        Known(k) == k \in Keys
    IN  SelectSeq(all, Known)

RECURSIVE TriggerAll(_, _, _)
TriggerAll(S, deps, p) ==
    IF p > Len(deps) THEN S
    ELSE TriggerAll(triggerEffects(S, deps[p], Dirty), deps, p + 1)

\* a trigger that runs the loop of its resetScheduling without the
\* pauseScheduleStack-- before it
triggerNoDecrement(S, type, key) ==
    IF TargetOf(key) \notin S.tm.maps THEN [S |-> S, reset |-> FALSE]
    ELSE [S |-> TriggerAll([S EXCEPT !.pS = @ + 1], TriggerDeps(type, key), 1),
          reset |-> TRUE]

\* trigger(target, type, key) up to and including the pauseScheduleStack--
\* of its resetScheduling; reset tells whether it got there
trigger(S, type, key) ==
    IF TargetOf(key) \notin S.tm.maps THEN [S |-> S, reset |-> FALSE]
    ELSE LET paused == [S EXCEPT !.pS = @ + 1]
             done   == TriggerAll(paused, TriggerDeps(type, key), 1)
         IN  [S |-> [done EXCEPT !.pS = @ - 1], reset |-> TRUE]

\* a pauseTracking that records the flag and leaves tracking on
pauseTrackingOn(S) == [S EXCEPT !.tS = Append(@, S.sT)]

pauseTracking(S) == [S EXCEPT !.tS = Append(@, S.sT), !.sT = FALSE]

resetTracking(S) ==
    IF S.tS = <<>> THEN [S EXCEPT !.sT = TRUE]
    ELSE [S EXCEPT !.sT = S.tS[Len(S.tS)], !.tS = SubSeq(S.tS, 1, Len(S.tS) - 1)]

\* a mutating method of the reactive array (push), up to and including the
\* pauseScheduleStack-- of its resetScheduling: the raw push reads length
\* and adds the index key
arrayPush(S) ==
    LET paused == [pauseTracking(S) EXCEPT !.pS = @ + 1]
        pushed == trigger(track(paused, "length"), "add", IndexKey(arrLen)).S
    IN  [pushed EXCEPT !.pS = @ - 1]

----------------------------------------------------------------------------
(* User programs and the call stack of Part II *)

\* calls of top-level user code, and entries of one effect function, in one
\* behaviour
MaxUserOps == 4
MaxRuns == 3
\* nested calls of pauseScheduling by user code
MaxPause == 2

\* The operations of an effect function: "getx" reads obj.x, "x1st" reads it
\* in the first run only, "xlater" in later runs only, "setx" writes a new
\* value to obj.x, "len" reads arr.length, "get0" reads arr[0], "push" calls
\* arr.push(v), "throw?" is code that may throw
Programs ==
    { <<"push">>,
      <<"getx", "setx">>,
      <<"getx", "throw?">>,
      <<"len", "throw?">>,
      <<"get0", "throw?">>,
      <<"x1st", "len", "xlater">>,
      <<"len", "x1st">> }

ReadKey(op, n) ==
    CASE op = "getx"   -> "x"
      [] op = "len"    -> "length"
      [] op = "get0"   -> "0"
      [] op = "x1st"   -> IF n = 1 THEN "x" ELSE "none"
      [] op = "xlater" -> IF n > 1 THEN "x" ELSE "none"
      [] OTHER         -> "none"

ReadOps == {"getx", "len", "get0", "x1st", "xlater"}

\* Frames: "run" is an effect function being executed (e the effect, n its
\* run number, pc the next operation, live whether run() took the active
\* path, sE and sT its lastEffect and lastShouldTrack); "drain" is the loop of
\* resetScheduling (after: what its caller does next); "toyrun" and "toytrig"
\* are the effectFn and the forEach of trigger of part_001 (todo: the effects
\* still to be called).
RFrame(k, e, n, after, todo, sE, sT, live) ==
    [k |-> k, e |-> e, n |-> n, pc |-> 1, after |-> after, todo |-> todo,
     sE |-> sE, sT |-> sT, live |-> live]

CDepth == Len(calls)
CTop == calls[CDepth]
CPop == SubSeq(calls, 1, CDepth - 1)
\* the stack with the operation at pc of the top frame done
Stepped == [calls EXCEPT ![CDepth].pc = @ + 1]

InRun(k) == IF CDepth = 0 \/ exc THEN FALSE
            ELSE CTop.k = k /\ CTop.pc <= Len(fnOf[CTop.e])
AtOp(k, opset) == IF InRun(k) THEN fnOf[CTop.e][CTop.pc] \in opset ELSE FALSE
AtTop == CDepth = 0 /\ ~exc /\ userOps < MaxUserOps

vueVars == <<activeEffect, shouldTrack, pauseScheduleStack, trackStack,
             queueEffectSchedulers, effect, targetMap, scheduled,
             triggerCalls>>
toyVars == <<bucket, toyActiveEffect, effectStack, toyShouldTrack, toyDeps>>

\* the kernels before any effect is made; kernels, programs and recurse are
\* the choices considered for impl, fnOf and allowRecurse of effect 1
InitReact(kernels, programs, recurse) ==
    /\ impl \in kernels
    /\ fnOf \in [Effects -> programs]
    /\ calls = <<>>
    /\ exc = FALSE
    /\ arrLen = 0
    /\ userOps = 0
    /\ runCount = [e \in Effects |-> 0]
    /\ activeEffect = NoEffect
    /\ shouldTrack = TRUE
    /\ pauseScheduleStack = 0
    /\ trackStack = <<>>
    /\ queueEffectSchedulers = <<>>
    /\ scheduled = {}
    /\ triggerCalls = {}
    /\ effect \in {[e \in Effects |-> NewEffect(e = 1 /\ r)] : r \in recurse}
    /\ targetMap = [maps |-> {}, has |-> {}, dep |-> [k \in Keys |-> EmptyDep]]
    /\ bucket = [k \in Keys |-> <<>>]
    /\ toyActiveEffect = NoEffect
    /\ effectStack = <<>>
    /\ toyShouldTrack = TRUE
    /\ toyDeps = [e \in Effects |-> <<>>]

----------------------------------------------------------------------------
(* effect.ts, baseHandlers.ts, reactiveEffect.ts *)

\* this.run() up to the call of this.fn (part_005:155-175)
enterRun(S, e) ==
    LET E == S.eff[e]
        n == runCount[e] + 1
    IN  IF ~E.active
        THEN [S |-> [S EXCEPT !.eff[e].dirtyLevel = NotDirty],
              frame |-> RFrame("run", e, n, "none", <<>>, S.aE, S.sT, FALSE)]
        ELSE [S |-> [S EXCEPT !.eff[e] = preCleanupEffect(
                                  [E EXCEPT !.dirtyLevel = NotDirty,
                                            !.runnings = @ + 1]),
                              !.sT = TRUE, !.aE = e],
              frame |-> RFrame("run", e, n, "none", <<>>, S.aE, S.sT, TRUE)]

\* the finally block of run() (part_005:176-192)
exitRun(S, f) ==
    IF f.live
    THEN [postCleanupEffect(S, f.e) EXCEPT
            !.eff[f.e].runnings = @ - 1, !.aE = f.sE, !.sT = f.sT]
    ELSE S

DrainFrame(after) == RFrame("drain", NoEffect, 0, after, <<>>, NoEffect, TRUE, FALSE)

\* user code calls the runner of effect e
vueUserRun(e) ==
    /\ impl = "vue" /\ AtTop
    /\ runCount[e] < MaxRuns
    /\ LET r == enterRun(Entered, e)
       IN  SetKernel(r.S) /\ calls' = <<r.frame>>
    /\ runCount' = [runCount EXCEPT ![e] = @ + 1]
    /\ userOps' = userOps + 1
    /\ UNCHANGED <<restVars, schedVars, impl, fnOf, exc, arrLen, toyVars>>

\* user code writes a new value to obj.x (the set trap, part_006:206-294)
vueUserSet ==
    /\ impl = "vue" /\ AtTop
    /\ LET r == trigger(Entered, "set", "x")
       IN  /\ SetKernel(r.S)
           /\ calls' = IF r.reset THEN <<DrainFrame("none")>> ELSE calls
    /\ userOps' = userOps + 1
    /\ UNCHANGED <<restVars, schedVars, impl, fnOf, exc, arrLen, runCount, toyVars>>

\* user code calls arr.push(v) (part_006:71-80)
vueUserPush ==
    /\ impl = "vue" /\ AtTop
    /\ SetKernel(arrayPush(Entered))
    /\ calls' = <<DrainFrame("resetTracking")>>
    /\ arrLen' = arrLen + 1
    /\ userOps' = userOps + 1
    /\ UNCHANGED <<restVars, schedVars, impl, fnOf, exc, runCount, toyVars>>

\* user code calls triggerEffects(dep, dirtyLevel) on the dep of key
\* (part_005:391-415); its resetScheduling runs the loop
vueUserTriggerEffects(key, dirtyLevel) ==
    /\ impl = "vue" /\ AtTop
    /\ SetKernel(triggerEffects(Entered, key, dirtyLevel))
    /\ calls' = <<DrainFrame("none")>>
    /\ userOps' = userOps + 1
    /\ UNCHANGED <<restVars, schedVars, impl, fnOf, exc, arrLen, runCount, toyVars>>

\* user code calls pauseScheduling() (part_005:327-329)
vueUserPause ==
    /\ impl = "vue" /\ AtTop
    /\ pauseScheduleStack < MaxPause
    /\ SetKernel([Entered EXCEPT !.pS = @ + 1])
    /\ UNCHANGED <<restVars, schedVars, impl, fnOf, calls, exc, arrLen, userOps,
                   runCount, toyVars>>

\* user code calls resetScheduling() for a pauseScheduling() of its own
\* (part_005:331-336)
vueUserReset ==
    /\ impl = "vue" /\ AtTop
    /\ pauseScheduleStack > 0
    /\ SetKernel([Entered EXCEPT !.pS = @ - 1])
    /\ calls' = <<DrainFrame("none")>>
    /\ UNCHANGED <<restVars, schedVars, impl, fnOf, exc, arrLen, userOps,
                   runCount, toyVars>>

\* user code calls stop(runner) (part_005:195-202)
vueUserStop(e) ==
    /\ impl = "vue" /\ AtTop
    /\ effect[e].active
    /\ LET S == postCleanupEffect(
                    [Entered EXCEPT !.eff[e] = preCleanupEffect(@)], e)
       IN  SetKernel([S EXCEPT !.eff[e].active = FALSE])
    /\ userOps' = userOps + 1
    /\ UNCHANGED <<restVars, schedVars, impl, fnOf, calls, exc, arrLen, runCount, toyVars>>

\* the running effect function reads a property (the get trap,
\* part_006:97-197)
vueRead ==
    /\ impl = "vue" /\ AtOp("run", ReadOps)
    /\ LET key == ReadKey(fnOf[CTop.e][CTop.pc], CTop.n)
       IN  SetKernel(IF key = "none" THEN Kernel ELSE track(Kernel, key))
    /\ calls' = Stepped
    /\ UNCHANGED <<restVars, schedVars, impl, fnOf, exc, arrLen, userOps, runCount, toyVars>>

\* the running effect function writes a new value to obj.x ("set1st": in
\* its first run only)
vueSet ==
    /\ impl = "vue" /\ AtOp("run", {"setx", "set1st"})
    /\ IF fnOf[CTop.e][CTop.pc] = "set1st" /\ CTop.n > 1
       THEN SetKernel(Kernel) /\ calls' = Stepped
       ELSE LET r == trigger(Kernel, "set", "x")
            IN  /\ SetKernel(r.S)
                /\ calls' = IF r.reset THEN Append(Stepped, DrainFrame("none"))
                            ELSE Stepped
    /\ UNCHANGED <<restVars, schedVars, impl, fnOf, exc, arrLen, userOps, runCount, toyVars>>

\* the running effect function calls arr.push(v)
vuePush ==
    /\ impl = "vue" /\ AtOp("run", {"push"})
    /\ SetKernel(arrayPush(Kernel))
    /\ calls' = Append(Stepped, DrainFrame("resetTracking"))
    /\ arrLen' = arrLen + 1
    /\ UNCHANGED <<restVars, schedVars, impl, fnOf, exc, userOps, runCount, toyVars>>

\* code of the effect function that throws or does not
vueMayThrow ==
    /\ impl = "vue" /\ AtOp("run", {"throw?"})
    /\ \E thrown \in BOOLEAN :
          /\ exc' = thrown
          /\ calls' = IF thrown THEN calls ELSE Stepped
    /\ UNCHANGED <<restVars, schedVars, impl, fnOf, arrLen, userOps, runCount, vueVars, toyVars>>

\* this.fn() returns: the finally block of run()
vueRunReturn ==
    /\ impl = "vue" /\ CDepth > 0 /\ ~exc
    /\ CTop.k = "run" /\ CTop.pc > Len(fnOf[CTop.e])
    /\ SetKernel(exitRun(Kernel, CTop))
    /\ calls' = CPop
    /\ UNCHANGED <<restVars, schedVars, impl, fnOf, exc, arrLen, userOps, runCount, toyVars>>

Draining == IF CDepth = 0 \/ exc THEN FALSE ELSE CTop.k = "drain"

\* one turn of the loop of resetScheduling (part_005:337-339): the scheduler
\* that effect() gives an effect runs it if it is dirty (part_005:268-291)
vueDrainCall ==
    /\ impl = "vue" /\ Draining
    /\ pauseScheduleStack = 0 /\ queueEffectSchedulers # <<>>
    /\ LET e == Head(queueEffectSchedulers)
           S == [Kernel EXCEPT !.q = Tail(@)]
       IN  IF effect[e].dirtyLevel >= Dirty
           THEN /\ runCount[e] < MaxRuns
                /\ LET r == enterRun(S, e)
                   IN  SetKernel(r.S) /\ calls' = Append(calls, r.frame)
                /\ runCount' = [runCount EXCEPT ![e] = @ + 1]
           ELSE \* get dirty() found the effect MaybeDirty with no computed
                \* among its deps, or NotDirty (part_005:117-135)
                /\ SetKernel([S EXCEPT !.eff[e].dirtyLevel =
                                  IF @ = MaybeDirty THEN NotDirty ELSE @])
                /\ UNCHANGED <<calls, runCount>>
    /\ UNCHANGED <<restVars, schedVars, impl, fnOf, exc, arrLen, userOps, toyVars>>

\* the loop of resetScheduling ends; an array method goes on to resetTracking
vueDrainDone ==
    /\ impl = "vue" /\ Draining
    /\ IF pauseScheduleStack = 0 THEN queueEffectSchedulers = <<>> ELSE TRUE
    /\ SetKernel(IF CTop.after = "resetTracking" THEN resetTracking(Kernel)
                 ELSE Kernel)
    /\ calls' = CPop
    /\ UNCHANGED <<restVars, schedVars, impl, fnOf, exc, arrLen, userOps, runCount, toyVars>>

\* an exception leaves the innermost call: run() executes its finally block,
\* resetScheduling, trigger and the array methods have none; the exception
\* that leaves the outermost call is reported to the user
vueUnwind ==
    /\ impl = "vue" /\ exc /\ CDepth > 0
    /\ SetKernel(IF CTop.k = "run" THEN exitRun(Kernel, CTop) ELSE Kernel)
    /\ calls' = CPop
    /\ exc' = (CDepth > 1)
    /\ UNCHANGED <<restVars, schedVars, impl, fnOf, arrLen, userOps, runCount, toyVars>>

----------------------------------------------------------------------------
(* The hand-written kernel of part_001:286-551.  bucket[key] is the Set of *)
(* effect functions of a key in insertion order, toyDeps[e] is             *)
(* effectFn.deps with every Set named by its key.                          *)

\* cleanup(effectFn) (part_001:325-331), as the new bucket
cleanup(e) ==
    [k \in Keys |->
        IF \E i \in 1..Len(toyDeps[e]) : toyDeps[e][i] = k
        THEN Without(bucket[k], e) ELSE bucket[k]]

\* effectFn up to the call of fn (part_001:334-338)
toyEnter(e) ==
    /\ runCount[e] < MaxRuns
    /\ bucket' = cleanup(e)
    /\ toyDeps' = [toyDeps EXCEPT ![e] = <<>>]
    /\ toyActiveEffect' = e
    /\ effectStack' = Append(effectStack, e)
    /\ runCount' = [runCount EXCEPT ![e] = @ + 1]
    /\ calls' = Append(IF CDepth = 0 THEN calls ELSE
                       [calls EXCEPT ![CDepth].todo = Tail(@)],
                       RFrame("toyrun", e, runCount[e] + 1, "none", <<>>,
                              NoEffect, TRUE, TRUE))

\* trigger(target, key, type) up to the forEach (part_001:368-381): the frame
\* that calls the effect functions of a copy of the Set of the key
toyTrigger(key, after) ==
    RFrame("toytrig", NoEffect, 0, after,
           IF key \in Keys THEN bucket[key] ELSE <<>>, NoEffect, TRUE, FALSE)

\* user code calls effect(fn), or the effectFn it returned
toyUserRun(e) ==
    /\ impl = "toy" /\ AtTop
    /\ toyEnter(e)
    /\ userOps' = userOps + 1
    /\ UNCHANGED <<restVars, schedVars, impl, fnOf, exc, arrLen, toyShouldTrack, vueVars>>

\* user code writes a new value to obj.x (the set trap, part_001:496-512)
toyUserSet ==
    /\ impl = "toy" /\ AtTop
    /\ calls' = <<toyTrigger("x", "none")>>
    /\ userOps' = userOps + 1
    /\ UNCHANGED <<restVars, schedVars, impl, fnOf, exc, arrLen, runCount, vueVars, toyVars>>

\* arr.push(v) up to the forEach of the trigger of the new index
\* (part_001:315-319); the set of length that follows changes no value
toyArrayPush ==
    /\ toyShouldTrack' = FALSE
    /\ arrLen' = arrLen + 1
    /\ calls' = Append(IF CDepth = 0 THEN calls ELSE Stepped,
                       toyTrigger(IndexKey(arrLen), "pushEnd"))

toyUserPush ==
    /\ impl = "toy" /\ AtTop
    /\ toyArrayPush
    /\ userOps' = userOps + 1
    /\ UNCHANGED <<restVars, schedVars, impl, fnOf, exc, runCount, vueVars, bucket,
                   toyActiveEffect, effectStack, toyDeps>>

\* the running effect function reads a property: the get trap calls track
\* (part_001:352-366, 472-495)
toyRead ==
    /\ impl = "toy" /\ AtOp("toyrun", ReadOps)
    /\ LET key == ReadKey(fnOf[CTop.e][CTop.pc], CTop.n)
           e   == toyActiveEffect
       IN  IF key = "none" \/ e = NoEffect \/ ~toyShouldTrack
           THEN UNCHANGED <<bucket, toyDeps>>
           ELSE /\ bucket' = [bucket EXCEPT ![key] =
                                 IF \E i \in 1..Len(@) : @[i] = e THEN @
                                 ELSE Append(@, e)]
                /\ toyDeps' = [toyDeps EXCEPT ![e] = Append(@, key)]
    /\ calls' = Stepped
    /\ UNCHANGED <<restVars, schedVars, impl, fnOf, exc, arrLen, userOps, runCount,
                   vueVars, toyActiveEffect, effectStack, toyShouldTrack>>

toySet ==
    /\ impl = "toy" /\ AtOp("toyrun", {"setx"})
    /\ calls' = Append(Stepped, toyTrigger("x", "none"))
    /\ UNCHANGED <<restVars, schedVars, impl, fnOf, exc, arrLen, userOps, runCount,
                   vueVars, toyVars>>

toyPush ==
    /\ impl = "toy" /\ AtOp("toyrun", {"push"})
    /\ toyArrayPush
    /\ UNCHANGED <<restVars, schedVars, impl, fnOf, exc, userOps, runCount, vueVars,
                   bucket, toyActiveEffect, effectStack, toyDeps>>

toyMayThrow ==
    /\ impl = "toy" /\ AtOp("toyrun", {"throw?"})
    /\ \E thrown \in BOOLEAN :
          /\ exc' = thrown
          /\ calls' = IF thrown THEN calls ELSE Stepped
    /\ UNCHANGED <<restVars, schedVars, impl, fnOf, arrLen, userOps, runCount, vueVars,
                   toyVars>>

\* fn() returns to effectFn (part_001:339-340)
toyRunReturn ==
    /\ impl = "toy" /\ CDepth > 0 /\ ~exc
    /\ CTop.k = "toyrun" /\ CTop.pc > Len(fnOf[CTop.e])
    /\ effectStack' = SubSeq(effectStack, 1, Len(effectStack) - 1)
    /\ toyActiveEffect' = IF Len(effectStack') > 0
                          THEN effectStack'[Len(effectStack')] ELSE NoEffect
    /\ calls' = CPop
    /\ UNCHANGED <<restVars, schedVars, impl, fnOf, exc, arrLen, userOps, runCount,
                   vueVars, bucket, toyShouldTrack, toyDeps>>

Triggering == IF CDepth = 0 \/ exc THEN FALSE ELSE CTop.k = "toytrig"

\* one turn of the forEach of trigger (part_001:381-390)
toyTrigCall ==
    /\ impl = "toy" /\ Triggering /\ CTop.todo # <<>>
    /\ IF Head(CTop.todo) = toyActiveEffect
       THEN /\ calls' = [calls EXCEPT ![CDepth].todo = Tail(@)]
            /\ UNCHANGED <<runCount, toyVars>>
       ELSE toyEnter(Head(CTop.todo)) /\ UNCHANGED toyShouldTrack
    /\ UNCHANGED <<restVars, schedVars, impl, fnOf, exc, arrLen, userOps, vueVars>>

\* the forEach ends; push goes on to shouldTrack = true (part_001:320)
toyTrigDone ==
    /\ impl = "toy" /\ Triggering /\ CTop.todo = <<>>
    /\ toyShouldTrack' = IF CTop.after = "pushEnd" THEN TRUE ELSE toyShouldTrack
    /\ calls' = CPop
    /\ UNCHANGED <<restVars, schedVars, impl, fnOf, exc, arrLen, userOps, runCount,
                   vueVars, bucket, toyActiveEffect, effectStack, toyDeps>>

\* an exception leaves the innermost call; no function of the kernel has a
\* try statement
toyUnwind ==
    /\ impl = "toy" /\ exc /\ CDepth > 0
    /\ calls' = CPop
    /\ exc' = (CDepth > 1)
    /\ UNCHANGED <<restVars, schedVars, impl, fnOf, arrLen, userOps, runCount, vueVars,
                   toyVars>>

----------------------------------------------------------------------------
(* reactive(o) and the raw-escape key of part_001.  An object is a pair:   *)
(* <<"raw", n>> a plain object, <<"proxy", n>> the n-th Proxy made.        *)

RawObjects == {<<"raw", 1>>, <<"raw", 2>>}
MaxProxies == 4

ProxyOf(n) == <<"proxy", n>>
IsProxy(o) == o[1] = "proxy"
KnownObjects == RawObjects \cup {ProxyOf(n) : n \in 1..Len(proxies)}

\* reactiveMap.get(o): the set of values stored under o (empty: undefined)
MapGet(o) == {pr[2] : pr \in {q \in reactiveMap : q[1] = o}}

\* the get trap for the key 'raw' (part_001:474-476)
rawOf(p) == proxies[p[2]]

InitProxy ==
    /\ reactiveMap = {}
    /\ proxies = <<>>
    /\ ret = [op |-> "none", arg |-> <<"raw", 1>>, res |-> <<"raw", 1>>]

\* user code calls reactive(o) (part_001:543-551)
reactive(o) ==
    /\ IF MapGet(o) # {}
       THEN /\ ret' = [op |-> "reactive", arg |-> o, res |-> CHOOSE p \in MapGet(o) : TRUE]
            /\ UNCHANGED <<reactiveMap, proxies>>
       ELSE /\ Len(proxies) < MaxProxies
            /\ proxies' = Append(proxies, o)
            /\ reactiveMap' = reactiveMap \cup {<<o, ProxyOf(Len(proxies) + 1)>>}
            /\ ret' = [op |-> "reactive", arg |-> o, res |-> ProxyOf(Len(proxies) + 1)]
    /\ UNCHANGED notProxy

\* user code reads p.raw
readRaw(p) ==
    /\ IsProxy(p)
    /\ ret' = [op |-> "raw", arg |-> p, res |-> rawOf(p)]
    /\ UNCHANGED <<notProxy, reactiveMap, proxies>>

NextProxy ==
    \/ \E o \in KnownObjects : reactive(o)
    \/ \E p \in KnownObjects : readRaw(p)

----------------------------------------------------------------------------
(* The set trap of createReactive (part_001:496-512) and hasChanged        *)
(* (part_001:298-303).  Values are named by strings; NaN is the one value  *)
(* that is not === to itself.                                              *)

Values == {"1", "2", "NaN", "undefined"}
StoreKeys == {"foo", "bar"}
MaxWrites == 3

\* a === b
StrictEquals(a, b) == a = b /\ a # "NaN"

hasChanged(oldVal, newVal) ==
    ~StrictEquals(oldVal, newVal)
        /\ (StrictEquals(oldVal, oldVal) /\ StrictEquals(newVal, newVal))

\* target[key]
Lookup(key) == IF store[key] = "absent" THEN "undefined" ELSE store[key]

InitWrite(stores) ==
    /\ store \in stores
    /\ written = [key |-> "foo", type |-> "none", oldVal |-> "undefined",
                  newVal |-> "undefined", triggered |-> FALSE]
    /\ writes = 0

\* user code assigns proxy[key] = newVal; the receiver is the proxy of the
\* target, so receiver.raw === target
setTrap(key, newVal) ==
    /\ writes < MaxWrites
    /\ LET oldVal == Lookup(key)
           type   == IF store[key] # "absent" THEN "SET" ELSE "ADD"
       IN  /\ store' = [store EXCEPT ![key] = newVal]
           /\ written' = [key |-> key, type |-> type, oldVal |-> oldVal,
                          newVal |-> newVal,
                          triggered |-> hasChanged(oldVal, newVal)]
    /\ writes' = writes + 1
    /\ UNCHANGED notWrite

NextWrite == \E key \in StoreKeys, newVal \in Values : setTrap(key, newVal)

----------------------------------------------------------------------------
(* KeepAlive (KeepAlive.ts:78-398).  The default slot holds one of the     *)
(* components of Components, whose cache key is the component itself, or   *)
(* a child that is no component ("text").  The renderer calls the render   *)
(* function in the update job of the instance and queues the mounted or    *)
(* updated hook as a post-flush callback; a job that is queued again       *)
(* while it runs is run again in the same flush, before the post-flush     *)
(* callbacks (scheduler.ts:262-275), so a render may follow a render.      *)

Components == {"A", "B", "C"}
MaxMax == 2
MaxRenders == 5

\* keys.add(key)
SetAdd(set, key) ==
    IF \E i \in 1..Len(set) : set[i] = key THEN set ELSE Append(set, key)

InitKeepAlive(sizes) ==
    /\ max \in sizes
    /\ cache = {}
    /\ keys = <<>>
    /\ current = "null"
    /\ pendingCacheKey = "null"
    /\ hookQueued = FALSE
    /\ renderThrew = FALSE
    /\ renders = 0
    /\ recency = <<>>
    /\ evicted = "none"

\* isSameVNodeType(cached, current) of vnode.ts, which compares the type and
\* the key of its arguments: reading them from undefined throws
isSameVNodeType(cachedKey, currentKey) ==
    [threw |-> cachedKey = "undefined", same |-> cachedKey = currentKey]

\* pruneCacheEntry(key) (KeepAlive.ts:217-232) on the key set ks: whether it
\* threw, and the cache and key set it leaves.  unmount(cached) throws in
\* resetShapeFlag when cached is undefined (KeepAlive.ts:197-200, 493-497).
pruneCacheEntry(key, ks) ==
    LET cached == IF key \in cache THEN key ELSE "undefined"
        cmp    == isSameVNodeType(cached, current)
        fails  == IF current = "null" THEN cached = "undefined" ELSE cmp.threw
    IN  IF fails THEN [threw |-> TRUE, cache |-> cache, keys |-> ks]
        ELSE [threw |-> FALSE, cache |-> cache \ {key}, keys |-> Without(ks, key)]

\* the render function (KeepAlive.ts:281-396)
render(child) ==
    /\ renders < MaxRenders
    /\ renders' = renders + 1
    /\ IF child \notin Components
       THEN /\ pendingCacheKey' = "null"
            /\ current' = "null"
            /\ hookQueued' = TRUE
            /\ renderThrew' = FALSE
            /\ evicted' = "none"
            /\ UNCHANGED <<cache, keys, recency>>
       ELSE /\ pendingCacheKey' = child
            /\ recency' = Append(Without(recency, child), child)
            /\ IF child \in cache
               THEN /\ keys' = Append(Without(keys, child), child)
                    /\ current' = child
                    /\ hookQueued' = TRUE
                    /\ renderThrew' = FALSE
                    /\ evicted' = "none"
                    /\ UNCHANGED cache
               ELSE LET added == SetAdd(keys, child)
                    IN  IF max > 0 /\ Len(added) > max
                        THEN LET r == pruneCacheEntry(added[1], added)
                             IN  /\ cache' = r.cache
                                 /\ keys' = r.keys
                                 /\ renderThrew' = r.threw
                                 /\ evicted' = IF r.threw THEN "none" ELSE added[1]
                                 /\ current' = IF r.threw THEN current ELSE child
                                 /\ hookQueued' = IF r.threw THEN hookQueued ELSE TRUE
                        ELSE /\ keys' = added
                             /\ current' = child
                             /\ hookQueued' = TRUE
                             /\ renderThrew' = FALSE
                             /\ evicted' = "none"
                             /\ UNCHANGED cache
    /\ UNCHANGED <<notKeepAlive, max>>

\* the mounted or updated hook: cacheSubtree (KeepAlive.ts:253-261)
cacheSubtree ==
    /\ hookQueued
    /\ hookQueued' = FALSE
    /\ cache' = IF pendingCacheKey # "null" THEN cache \cup {pendingCacheKey} ELSE cache
    /\ evicted' = "none"
    /\ UNCHANGED <<notKeepAlive, max, keys, current, pendingCacheKey, renderThrew,
                   renders, recency>>

NextKeepAlive ==
    \/ \E child \in Components \cup {"text"} : render(child)
    \/ cacheSubtree

----------------------------------------------------------------------------
(* The template parser: baseParse of part_007 and the Tokenizer that drives *)
(* it (reactiveEffect.ts:837-1818).  A string is a sequence of characters.  *)
(* The parser runs with parseMode "base" (the default) or "html", in a      *)
(* build without the compat code and with __BROWSER__ false; source         *)
(* locations and the tag type of an element are not modelled.  The entity   *)
(* decoder is not part of the sources: no template holds "&", so that the   *)
(* state InEntity is never entered.  The onError option is a callback that  *)
(* returns: errors holds the codes it was handed.                           *)

LowerCase == <<"a", "b", "c", "d", "e", "f", "g", "h", "i", "j", "k", "l", "m",
               "n", "o", "p", "q", "r", "s", "t", "u", "v", "w", "x", "y", "z">>
UpperCase == <<"A", "B", "C", "D", "E", "F", "G", "H", "I", "J", "K", "L", "M",
               "N", "O", "P", "Q", "R", "S", "T", "U", "V", "W", "X", "Y", "Z">>

\* undefined, where a string may stand
NoString == <<"undefined">>

\* String.prototype.toLowerCase
toLowerCase(str) ==
    [i \in 1..Len(str) |->
        IF \E k \in 1..Len(UpperCase) : UpperCase[k] = str[i]
        THEN LowerCase[CHOOSE k \in 1..Len(UpperCase) : UpperCase[k] = str[i]]
        ELSE str[i]]

isTagStartChar(c) ==
    \E k \in 1..Len(LowerCase) : c = LowerCase[k] \/ c = UpperCase[k]

isWhitespace(c) == c \in {" ", "\n", "\t", "\f", "\r"}

isEndOfTagSection(c) == c = "/" \/ c = ">" \/ isWhitespace(c)

\* CharCodes.GraveAccent
GraveAccent == "grave"

delimiterOpen == <<"{", "{">>
delimiterClose == <<"}", "}">>

Sequences ==
    [Cdata       |-> <<"C", "D", "A", "T", "A", "[">>,
     CdataEnd    |-> <<"]", "]", ">">>,
     CommentEnd  |-> <<"-", "-", ">">>,
     ScriptEnd   |-> <<"<", "/", "s", "c", "r", "i", "p", "t">>,
     StyleEnd    |-> <<"<", "/", "s", "t", "y", "l", "e">>,
     TitleEnd    |-> <<"<", "/", "t", "i", "t", "l", "e">>,
     TextareaEnd |-> <<"<", "/", "t", "e", "x", "t", "a", "r", "e", "a">>]

\* c | 0x20 of a character code: sets bit 5, which maps an upper case
\* letter to its lower case and leaves the codes that have the bit
orSpace(c) ==
    IF \E k \in 1..Len(UpperCase) : UpperCase[k] = c
    THEN LowerCase[CHOOSE k \in 1..Len(UpperCase) : UpperCase[k] = c]
    ELSE IF c = "[" THEN "{"
    ELSE IF c = "]" THEN "}"
    ELSE IF c = "\n" THEN "*"
    ELSE IF c = "\t" THEN ")"
    ELSE IF c = "\r" THEN "-"
    ELSE IF c = "\f" THEN ","
    ELSE IF c = "@" THEN GraveAccent
    ELSE c

\* buffer.charCodeAt(i): NaN past the end
charCodeAt(i) == IF i >= 0 /\ i < Len(buffer) THEN buffer[i + 1] ELSE "NaN"

\* String.prototype.slice(start, end) of str
slice(str, start, end) ==
    LET n == Len(str)
        s == IF start < 0 THEN (IF n + start < 0 THEN 0 ELSE n + start)
             ELSE IF start > n THEN n ELSE start
        e == IF end < 0 THEN (IF n + end < 0 THEN 0 ELSE n + end)
             ELSE IF end > n THEN n ELSE end
    IN  IF s >= e THEN <<>> ELSE SubSeq(str, s + 1, e)

getSlice(start, end) == slice(buffer, start, end)

\* String.prototype.trim
RECURSIVE trim(_)
trim(str) ==
    IF str # <<>> /\ isWhitespace(str[1]) THEN trim(Tail(str))
    ELSE IF str # <<>> /\ isWhitespace(str[Len(str)])
         THEN trim(SubSeq(str, 1, Len(str) - 1))
         ELSE str

isAllWhitespace(str) == \A i \in 1..Len(str) : isWhitespace(str[i])

hasNewlineChar(str) == \E i \in 1..Len(str) : str[i] \in {"\n", "\r"}

\* the loop of condense from character i on; prev is prevCharIsWhitespace
RECURSIVE condenseFrom(_, _, _)
condenseFrom(str, i, prev) ==
    IF i > Len(str) THEN <<>>
    ELSE IF isWhitespace(str[i])
         THEN (IF prev THEN <<>> ELSE <<" ">>) \o condenseFrom(str, i + 1, TRUE)
         ELSE <<str[i]>> \o condenseFrom(str, i + 1, FALSE)

condense(str) == condenseFrom(str, 1, FALSE)

\* str.replace(windowsNewlineRE, '\n')
RECURSIVE replaceWindowsNewlines(_)
replaceWindowsNewlines(str) ==
    IF str = <<>> THEN <<>>
    ELSE IF Len(str) >= 2 /\ str[1] = "\r" /\ str[2] = "\n"
         THEN <<"\n">> \o replaceWindowsNewlines(SubSeq(str, 3, Len(str)))
         ELSE <<str[1]>> \o replaceWindowsNewlines(Tail(str))

\* str.replace(/^\r?\n/, '')
removeLeadingNewline(str) ==
    IF Len(str) >= 1 /\ str[1] = "\n" THEN Tail(str)
    ELSE IF Len(str) >= 2 /\ str[1] = "\r" /\ str[2] = "\n"
         THEN SubSeq(str, 3, Len(str))
         ELSE str

\* a child node: a text, a comment or an interpolation with its content, or
\* an element by its place in elements; the type "null" is an entry that
\* condenseWhitespace has set to null
Node(type, content, id) == [type |-> type, content |-> content, id |-> id]

\* the loop of condenseWhitespace from entry i on (1-based); nodes holds the
\* changes made so far
RECURSIVE condenseLoop(_, _, _, _)
condenseLoop(nodes, i, whitespace, pre) ==
    IF i > Len(nodes) THEN nodes
    ELSE LET node == nodes[i]
             shouldCondense == whitespace # "preserve"
             prev == IF i > 1 THEN nodes[i - 1].type ELSE "null"
             next == IF i < Len(nodes) THEN nodes[i + 1].type ELSE "null"
             changed ==
                 IF node.type # "TEXT" THEN node
                 ELSE IF pre > 0
                 THEN [node EXCEPT !.content = replaceWindowsNewlines(@)]
                 ELSE IF isAllWhitespace(node.content)
                 THEN IF \/ prev = "null"
                         \/ next = "null"
                         \/ /\ shouldCondense
                            /\ \/ /\ prev = "COMMENT"
                                  /\ next \in {"COMMENT", "ELEMENT"}
                               \/ /\ prev = "ELEMENT"
                                  /\ \/ next = "COMMENT"
                                     \/ /\ next = "ELEMENT"
                                        /\ hasNewlineChar(node.content)
                      THEN Node("null", <<>>, 0)
                      ELSE [node EXCEPT !.content = <<" ">>]
                 ELSE IF shouldCondense
                      THEN [node EXCEPT !.content = condense(@)]
                      ELSE node
         IN  condenseLoop([nodes EXCEPT ![i] = changed], i + 1, whitespace, pre)

\* part_007:931-938: the leading newline of the first text of a pre element
removeFirstNewline(nodes, inPreTag) ==
    IF inPreTag /\ nodes # <<>> /\ nodes[1].type = "TEXT"
    THEN [nodes EXCEPT ![1].content = removeLeadingNewline(@)]
    ELSE nodes

\* nodes.filter(Boolean)
filterBoolean(nodes) == LET kept(n) == n.type # "null" IN SelectSeq(nodes, kept)

\* condenseWhitespace that returns its argument
condenseWhitespaceNone(nodes, isPre, whitespace, pre) == nodes

\* condenseWhitespace(nodes, tag) (part_007:872-941) under the whitespace
\* option and the value pre of inPre; isPre: tag is given and is a pre tag
condenseWhitespace(nodes, isPre, whitespace, pre) ==
    filterBoolean(removeFirstNewline(condenseLoop(nodes, 1, whitespace, pre),
                                     pre > 0 /\ isPre))

\* The parser and its tokenizer as one record, for the functions below
Parser ==
    [state |-> state, index |-> index, sectionStart |-> sectionStart,
     sequenceIndex |-> sequenceIndex, delimiterIndex |-> delimiterIndex,
     currentSequence |-> currentSequence, tokenizerInVPre |-> tokenizerInVPre,
     currentOptions |-> currentOptions, currentOpenTag |-> currentOpenTag,
     currentProp |-> currentProp, currentAttrValue |-> currentAttrValue,
     inPre |-> inPre, inVPre |-> inVPre,
     currentVPreBoundary |-> currentVPreBoundary, stack |-> parserStack,
     elements |-> elements, root |-> root, errors |-> errors, threw |-> FALSE,
     inRCDATA |-> inRCDATA, inXML |-> inXML, mode |-> mode, called |-> <<>>]

\* what follows a call in a function, skipped when the call threw
Then(T, Rest(_)) == IF T.threw THEN T ELSE Rest(T)

\* this.state = s; this.sectionStart = start, after a call that returned
SetState(T, s, start) ==
    IF T.threw THEN T ELSE [T EXCEPT !.state = s, !.sectionStart = start]

\* currentProp = null
NullProp ==
    [type |-> "null", name |-> <<>>, rawName |-> NoString, start |-> 0,
     value |-> NoString, arg |-> NoString, modifiers |-> <<>>]

\* emitError (part_007:1075-1079) with an onError that records the code
emitError(P, code) == [P EXCEPT !.errors = Append(@, code)]

\* addNode (part_007:979-981)
addNode(P, node) ==
    IF P.stack # <<>>
    THEN [P EXCEPT !.elements[P.stack[1]].children = Append(@, node)]
    ELSE [P EXCEPT !.root = Append(@, node)]

\* onText (part_007:627-650)
onText(P, content) ==
    LET children == IF P.stack # <<>> THEN P.elements[P.stack[1]].children
                    ELSE P.root
        merge    == children # <<>> /\ children[Len(children)].type = "TEXT"
        merged   == [children EXCEPT ![Len(children)].content = @ \o content]
    IN  IF ~merge THEN addNode(P, Node("TEXT", content, 0))
        ELSE IF P.stack # <<>>
             THEN [P EXCEPT !.elements[P.stack[1]].children = merged]
             ELSE [P EXCEPT !.root = merged]

\* ns === Namespaces.HTML && currentOptions.isPreTag(tag) of the element el
isPreElement(P, el) ==
    P.elements[el].ns = "HTML" /\ P.elements[el].tag \in P.currentOptions.isPreTag

\* part_007:705-708
leaveVPre(P, el) ==
    IF P.currentVPreBoundary = el
    THEN [P EXCEPT !.inVPre = FALSE, !.tokenizerInVPre = FALSE,
                   !.currentVPreBoundary = 0]
    ELSE P

\* part_007:710-715
leaveXML(P) ==
    IF P.inXML /\ (IF P.stack # <<>> THEN P.elements[P.stack[1]].ns
                   ELSE P.currentOptions.ns) = "HTML"
    THEN [P EXCEPT !.inXML = FALSE]
    ELSE P

\* onCloseTag(el, end, isImplied) (part_007:656-792) of the element el; the
\* end position set by setLocEnd is kept as the way the element ended
onCloseTag(P, el, isImplied) ==
    leaveXML(leaveVPre([P EXCEPT !.elements[el].end =
                            IF isImplied THEN "implied" ELSE "closed",
                        !.elements[el].children =
                            IF P.inRCDATA THEN @
                            ELSE condenseWhitespace(@, isPreElement(P, el),
                                                    P.currentOptions.whitespace,
                                                    P.inPre),
                        !.inPre = IF isPreElement(P, el) THEN @ - 1 ELSE @],
              el))

\* endOpenTag (part_007:604-625)
\* part_007:612-614
enterPre(P, el) == IF isPreElement(P, el) THEN [P EXCEPT !.inPre = @ + 1] ELSE P

\* part_007:615-623
closeOrPush(P, el) ==
    IF P.elements[el].tag \in P.currentOptions.isVoidTag
    THEN onCloseTag(P, el, FALSE)
    ELSE [P EXCEPT !.stack = <<el>> \o @,
                   !.inXML = IF P.elements[el].ns \in {"SVG", "MATH_ML"} THEN TRUE
                             ELSE @]

endOpenTag(P) ==
    [closeOrPush(enterPre(addNode(P, Node("ELEMENT", <<>>, P.currentOpenTag)),
                          P.currentOpenTag),
                 P.currentOpenTag)
     EXCEPT !.currentOpenTag = 0]

\* history: the tokenizer has called the callback cb of this.cbs on text
call(P, cb, text) == [P EXCEPT !.called = Append(@, [cb |-> cb, text |-> text])]

\* ontext (part_007:104-106)
ontext(P, start, end) ==
    call(onText(P, getSlice(start, end)), "ontext", getSlice(start, end))

\* the first index from i up that holds no whitespace (part_007:119-121)
RECURSIVE skipWhitespace(_)
skipWhitespace(i) == IF isWhitespace(charCodeAt(i)) THEN skipWhitespace(i + 1) ELSE i

\* the last index from i down whose predecessor holds no whitespace
\* (part_007:122-124)
RECURSIVE skipWhitespaceBack(_)
skipWhitespaceBack(i) ==
    IF isWhitespace(charCodeAt(i - 1)) THEN skipWhitespaceBack(i - 1) ELSE i

\* oninterpolation (part_007:113-140)
oninterpolation(P, start, end) ==
    call(IF P.inVPre THEN onText(P, getSlice(start, end))
         ELSE LET innerStart == skipWhitespace(start + Len(delimiterOpen))
                  innerEnd   == skipWhitespaceBack(end - Len(delimiterClose))
              IN  addNode(P, Node("INTERPOLATION",
                                  getSlice(innerStart, innerEnd), 0)),
         "oninterpolation", getSlice(start, end))

\* onopentagname (part_007:143-162); getNamespace is the one of the default
\* options
onopentagname(P, start, end) ==
    call([P EXCEPT !.elements = Append(@, [tag |-> getSlice(start, end),
                                           ns |-> "HTML", props |-> <<>>,
                                           children |-> <<>>, end |-> "open"]),
                   !.currentOpenTag = Len(P.elements) + 1],
         "onopentagname", getSlice(start, end))

\* onopentagend (part_007:165-167)
onopentagend(P) == call(endOpenTag(P), "onopentagend", <<>>)

\* the loop of part_007:187-190: the elements 0..i of the stack are shifted
\* and closed
RECURSIVE closeThrough(_, _)
closeThrough(P, n) ==
    IF n = 0 THEN P
    ELSE closeThrough(onCloseTag([P EXCEPT !.stack = Tail(@)], P.stack[1],
                                 n > 1),
                      n - 1)

\* onclosetag with e.tag === name in place of the comparison of lower cases
onclosetagExact(P, start, end) ==
    LET name    == getSlice(start, end)
        matches == {i \in 1..Len(P.stack) : P.elements[P.stack[i]].tag = name}
    IN  call(IF name \in P.currentOptions.isVoidTag THEN P
             ELSE IF matches = {} THEN emitError(P, "X_INVALID_END_TAG")
             ELSE LET i == CHOOSE m \in matches : \A o \in matches : m <= o
                  IN  closeThrough(IF i > 1
                                   THEN emitError(P, "X_MISSING_END_TAG")
                                   ELSE P, i),
             "onclosetag", name)

\* onclosetag (part_007:170-201)
onclosetag(P, start, end) ==
    LET name    == getSlice(start, end)
        matches == {i \in 1..Len(P.stack) :
                       toLowerCase(P.elements[P.stack[i]].tag) = toLowerCase(name)}
    IN  call(IF name \in P.currentOptions.isVoidTag THEN P
             ELSE IF matches = {} THEN emitError(P, "X_INVALID_END_TAG")
             ELSE LET i == CHOOSE m \in matches : \A o \in matches : m <= o
                      E == IF i > 1 THEN emitError(P, "X_MISSING_END_TAG") ELSE P
                  IN  closeThrough(E, i),
             "onclosetag", name)

\* onselfclosingtag (part_007:203-210)
closeIfTop(P, name) ==
    IF P.stack # <<>> /\ P.elements[P.stack[1]].tag = name
    THEN onCloseTag([P EXCEPT !.stack = Tail(@)], P.stack[1], FALSE)
    ELSE P

onselfclosingtag(P) ==
    call(IF P.currentOpenTag = 0 THEN [P EXCEPT !.threw = TRUE]
         ELSE closeIfTop(endOpenTag(P), P.elements[P.currentOpenTag].tag),
         "onselfclosingtag", <<>>)

\* onattribname (part_007:213-222)
onattribname(P, start, end) ==
    call([P EXCEPT !.currentProp =
             [NullProp EXCEPT !.type = "ATTRIBUTE", !.name = getSlice(start, end),
                              !.start = start]],
         "onattribname", getSlice(start, end))

\* dirToAttr (part_007:998-1025)
dirToAttr(dir) ==
    [NullProp EXCEPT !.type = "ATTRIBUTE", !.name = dir.rawName,
                     !.start = dir.start, !.value = dir.value]

\* ondirname (part_007:225-270)
ondirname(P, start, end) ==
    LET raw  == getSlice(start, end)
        name == IF raw = <<".">> \/ raw = <<":">> THEN <<"b", "i", "n", "d">>
                ELSE IF raw = <<"@">> THEN <<"o", "n">>
                ELSE IF raw = <<"#">> THEN <<"s", "l", "o", "t">>
                ELSE slice(raw, 2, Len(raw))
        E    == IF ~P.inVPre /\ name = <<>>
                THEN emitError(P, "X_MISSING_DIRECTIVE_NAME") ELSE P
    IN  IF P.inVPre \/ name = <<>>
        THEN [E EXCEPT !.currentProp =
                 [NullProp EXCEPT !.type = "ATTRIBUTE", !.name = raw,
                                  !.start = start]]
        ELSE LET D == [E EXCEPT !.currentProp =
                         [NullProp EXCEPT
                             !.type = "DIRECTIVE", !.name = name,
                             !.rawName = raw, !.start = start,
                             !.modifiers = IF raw = <<".">>
                                           THEN << <<"p", "r", "o", "p">> >>
                                           ELSE <<>>]]
             IN  IF name # <<"p", "r", "e">> THEN D
                 ELSE IF P.currentOpenTag = 0 THEN [D EXCEPT !.threw = TRUE]
                 ELSE [D EXCEPT
                          !.inVPre = TRUE, !.tokenizerInVPre = TRUE,
                          !.currentVPreBoundary = P.currentOpenTag,
                          !.elements[P.currentOpenTag].props =
                              [i \in 1..Len(@) |->
                                  IF @[i].type = "DIRECTIVE" THEN dirToAttr(@[i])
                                  ELSE @[i]]]

\* ondirarg (part_007:273-288)
ondirarg(P, start, end) ==
    LET arg == getSlice(start, end)
    IN  IF start = end THEN P
        ELSE IF P.inVPre THEN [P EXCEPT !.currentProp.name = @ \o arg]
        ELSE [P EXCEPT !.currentProp.arg =
                 IF arg[1] # "[" THEN arg ELSE slice(arg, 1, -1)]

\* ondirmodifier (part_007:290-306)
ondirmodifier(P, start, end) ==
    LET mod == getSlice(start, end)
    IN  IF P.inVPre THEN [P EXCEPT !.currentProp.name = @ \o <<".">> \o mod]
        ELSE IF P.currentProp.name = <<"s", "l", "o", "t">>
        THEN IF P.currentProp.arg # NoString
             THEN [P EXCEPT !.currentProp.arg = @ \o <<".">> \o mod]
             ELSE P
        ELSE [P EXCEPT !.currentProp.modifiers = Append(@, mod)]

\* onattribdata (part_007:309-314)
onattribdata(P, start, end) ==
    [P EXCEPT !.currentAttrValue = @ \o getSlice(start, end)]

\* onattribnameend (part_007:323-337)
onattribnameend(P, end) ==
    IF P.currentProp.type = "null" \/ P.currentOpenTag = 0
    THEN [P EXCEPT !.threw = TRUE]
    ELSE LET start == P.currentProp.start
             name  == getSlice(start, end)
             R     == IF P.currentProp.type = "DIRECTIVE"
                      THEN [P EXCEPT !.currentProp.rawName = name] ELSE P
             props == P.elements[P.currentOpenTag].props
         IN  IF \E i \in 1..Len(props) :
                    (IF props[i].type = "DIRECTIVE" THEN props[i].rawName
                     ELSE props[i].name) = name
             THEN emitError(R, "DUPLICATE_ATTRIBUTE")
             ELSE R

\* onattribend (part_007:339-438); quote is a QuoteType
onattribend(P, quote) ==
    LET prop  == P.currentProp
        class == condense(P.currentAttrValue)
        text  == IF prop.name = <<"c", "l", "a", "s", "s">> THEN trim(class)
                 ELSE P.currentAttrValue
        V     == IF quote = "NoValue" THEN P
                 ELSE IF prop.type = "ATTRIBUTE"
                 THEN [(IF quote = "Unquoted" /\ text = <<>>
                        THEN emitError(P, "MISSING_ATTRIBUTE_VALUE") ELSE P)
                       EXCEPT !.currentProp.value = text]
                 ELSE [P EXCEPT !.currentProp.value = P.currentAttrValue]
        A     == IF V.currentProp.type # "DIRECTIVE"
                    \/ V.currentProp.name # <<"p", "r", "e">>
                 THEN [V EXCEPT !.elements[P.currentOpenTag].props =
                                     Append(@, V.currentProp)]
                 ELSE V
    IN  [(IF P.currentOpenTag # 0 /\ prop.type # "null" THEN A ELSE P)
         EXCEPT !.currentAttrValue = <<>>]

\* oncomment (part_007:440-448)
oncomment(P, start, end) ==
    call(IF P.currentOptions.comments
         THEN addNode(P, Node("COMMENT", getSlice(start, end), 0))
         ELSE P,
         "oncomment", getSlice(start, end))

\* oncdata (part_007:502-508): stack[0].ns throws on an empty stack
oncdata(P, start, end) ==
    call(IF P.stack = <<>> THEN [P EXCEPT !.threw = TRUE]
         ELSE IF P.elements[P.stack[1]].ns # "HTML"
         THEN onText(P, getSlice(start, end))
         ELSE emitError(P, "CDATA_IN_HTML_CONTENT"),
         "oncdata", getSlice(start, end))

\* onprocessinginstruction (part_007:510-518); currentOptions.ns is HTML
onprocessinginstruction(P) ==
    call(IF (IF P.stack # <<>> THEN P.elements[P.stack[1]].ns ELSE "HTML") = "HTML"
         THEN emitError(P, "UNEXPECTED_QUESTION_MARK_INSTEAD_OF_TAG_NAME")
         ELSE P,
         "onprocessinginstruction", <<>>)

\* the loop of onend over the stack from entry i on (part_007:496-499)
RECURSIVE closeUnclosed(_, _)
closeUnclosed(P, i) ==
    IF i > Len(P.stack) THEN P
    ELSE closeUnclosed(emitError(onCloseTag(P, P.stack[i], FALSE), "X_MISSING_END_TAG"),
                       i + 1)

\* onend (part_007:451-500)
onend(P) ==
    LET E == IF P.state \in {"BeforeTagName", "BeforeClosingTagName"}
             THEN emitError(P, "EOF_BEFORE_TAG_NAME")
             ELSE IF P.state \in {"Interpolation", "InterpolationClose"}
             THEN emitError(P, "X_MISSING_INTERPOLATION_END")
             ELSE IF P.state = "InCommentLike"
             THEN emitError(P, IF P.currentSequence = "CdataEnd"
                               THEN "EOF_IN_CDATA" ELSE "EOF_IN_COMMENT")
             ELSE IF P.state \in {"InTagName", "InSelfClosingTag",
                                  "InClosingTagName", "BeforeAttrName",
                                  "InAttrName", "InDirName", "InDirArg",
                                  "InDirDynamicArg", "InDirModifier",
                                  "AfterAttrName", "BeforeAttrValue",
                                  "InAttrValueDq", "InAttrValueSq",
                                  "InAttrValueNq"}
             THEN emitError(P, "EOF_IN_TAG")
             ELSE P
    IN  closeUnclosed(call(E, "onend", <<>>), 1)

\* peek (reactiveEffect.ts:916-918)
peek(P) == charCodeAt(P.index + 1)

\* fastForwardTo(c) (reactiveEffect.ts:1080-1100): whether c was found, and
\* the index it leaves
fastForwardTo(P, c) ==
    LET hits == {j \in (P.index + 1)..(Len(buffer) - 1) : charCodeAt(j) = c}
    IN  IF hits # {}
        THEN [found |-> TRUE, index |-> CHOOSE j \in hits : \A k \in hits : j <= k]
        ELSE [found |-> FALSE, index |-> Len(buffer) - 1]

\* get inSFCRoot (reactiveEffect.ts:860-862)
inSFCRoot(P) == P.mode = "SFC" /\ P.stack = <<>>

\* startEntity (reactiveEffect.ts:1528-1539), without the entity decoder
startEntity(P) == [P EXCEPT !.state = "InEntity"]

\* stateText and stateInterpolationOpen (reactiveEffect.ts:920-959)
RECURSIVE stateText(_, _)
RECURSIVE stateInRCDATA(_, _)
stateInterpolationOpen(P, c) ==
    IF c = delimiterOpen[P.delimiterIndex + 1]
    THEN IF P.delimiterIndex = Len(delimiterOpen) - 1
         THEN LET start == P.index + 1 - Len(delimiterOpen)
                  T     == IF start > P.sectionStart
                           THEN ontext(P, P.sectionStart, start) ELSE P
              IN  [T EXCEPT !.state = "Interpolation", !.sectionStart = start]
         ELSE [P EXCEPT !.delimiterIndex = @ + 1]
    ELSE IF P.inRCDATA
    THEN stateInRCDATA([P EXCEPT !.state = "InRCDATA"], c)
    ELSE stateText([P EXCEPT !.state = "Text"], c)

stateText(P, c) ==
    IF c = "<"
    THEN LET T == IF P.index > P.sectionStart
                  THEN ontext(P, P.sectionStart, P.index) ELSE P
         IN  [T EXCEPT !.state = "BeforeTagName", !.sectionStart = P.index]
    ELSE IF c = "&" THEN startEntity(P)
    ELSE IF ~P.tokenizerInVPre /\ c = delimiterOpen[1]
    THEN stateInterpolationOpen(
             [P EXCEPT !.state = "InterpolationOpen", !.delimiterIndex = 0], c)
    ELSE P

\* stateInterpolation and stateInterpolationClose (reactiveEffect.ts:961-986)
RECURSIVE stateInterpolation(_, _)
stateInterpolationClose(P, c) ==
    IF c = delimiterClose[P.delimiterIndex + 1]
    THEN IF P.delimiterIndex = Len(delimiterClose) - 1
         THEN [oninterpolation(P, P.sectionStart, P.index + 1)
               EXCEPT !.state = IF P.inRCDATA THEN "InRCDATA" ELSE "Text",
                      !.sectionStart = P.index + 1]
         ELSE [P EXCEPT !.delimiterIndex = @ + 1]
    ELSE stateInterpolation([P EXCEPT !.state = "Interpolation"], c)

stateInterpolation(P, c) ==
    IF c = delimiterClose[1]
    THEN stateInterpolationClose(
             [P EXCEPT !.state = "InterpolationClose", !.delimiterIndex = 0], c)
    ELSE P

\* stateInDeclaration (reactiveEffect.ts:1473-1479)
stateInDeclaration(P, c) ==
    LET ff == fastForwardTo(P, ">")
    IN  IF c = ">" THEN [P EXCEPT !.state = "Text", !.sectionStart = P.index + 1]
        ELSE IF ff.found
        THEN [P EXCEPT !.index = ff.index, !.state = "Text",
                       !.sectionStart = ff.index + 1]
        ELSE [P EXCEPT !.index = ff.index]

\* stateCDATASequence (reactiveEffect.ts:1059-1072)
stateCDATASequence(P, c) ==
    IF c = Sequences.Cdata[P.sequenceIndex + 1]
    THEN IF P.sequenceIndex + 1 = Len(Sequences.Cdata)
         THEN [P EXCEPT !.state = "InCommentLike", !.currentSequence = "CdataEnd",
                        !.sequenceIndex = 0, !.sectionStart = P.index + 1]
         ELSE [P EXCEPT !.sequenceIndex = @ + 1]
    ELSE stateInDeclaration(
             [P EXCEPT !.sequenceIndex = 0, !.state = "InDeclaration"], c)

\* stateInCommentLike (reactiveEffect.ts:1110-1132)
stateInCommentLike(P, c) ==
    LET seq == Sequences[P.currentSequence]
        ff  == fastForwardTo(P, seq[1])
    IN  IF c = seq[P.sequenceIndex + 1]
        THEN IF P.sequenceIndex + 1 = Len(seq)
             THEN Then(IF P.currentSequence = "CdataEnd"
                       THEN oncdata([P EXCEPT !.sequenceIndex = @ + 1],
                                    P.sectionStart, P.index - 2)
                       ELSE oncomment([P EXCEPT !.sequenceIndex = @ + 1],
                                      P.sectionStart, P.index - 2),
                       LAMBDA T : [T EXCEPT !.sequenceIndex = 0,
                                            !.sectionStart = P.index + 1,
                                            !.state = "Text"])
             ELSE [P EXCEPT !.sequenceIndex = @ + 1]
        ELSE IF P.sequenceIndex = 0
        THEN [P EXCEPT !.index = ff.index,
                       !.sequenceIndex = IF ff.found THEN 1 ELSE 0]
        ELSE IF c # seq[P.sequenceIndex]
        THEN [P EXCEPT !.sequenceIndex = 0]
        ELSE P

\* stateBeforeTagName (reactiveEffect.ts:1145-1194)
stateBeforeTagName(P, c) ==
    IF c = "!"
    THEN [P EXCEPT !.state = "BeforeDeclaration", !.sectionStart = P.index + 1]
    ELSE IF c = "?"
    THEN [P EXCEPT !.state = "InProcessingInstruction",
                   !.sectionStart = P.index + 1]
    ELSE IF isTagStartChar(c)
    THEN [P EXCEPT !.sectionStart = P.index,
                   !.state = IF P.mode = "BASE" THEN "InTagName"
                             ELSE IF inSFCRoot(P) THEN "InSFCRootTagName"
                             ELSE IF ~P.inXML
                             THEN IF orSpace(c) = "t" THEN "BeforeSpecialT"
                                  ELSE IF orSpace(c) = "s" THEN "BeforeSpecialS"
                                  ELSE "InTagName"
                             ELSE "InTagName"]
    ELSE IF c = "/"
    THEN [P EXCEPT !.state = "BeforeClosingTagName"]
    ELSE stateText([P EXCEPT !.state = "Text"], c)

\* handleAttrStart (reactiveEffect.ts:1292-1310)
handleAttrStart(P, c) ==
    IF c = "v" /\ peek(P) = "-"
    THEN [P EXCEPT !.state = "InDirName", !.sectionStart = P.index]
    ELSE IF c \in {".", ":", "@", "#"}
    THEN [ondirname(P, P.index, P.index + 1)
          EXCEPT !.state = "InDirArg", !.sectionStart = P.index + 1]
    ELSE [P EXCEPT !.state = "InAttrName", !.sectionStart = P.index]

\* stateBeforeAttrName (reactiveEffect.ts:1253-1289)
stateBeforeAttrName(P, c) ==
    IF c = ">"
    THEN [onopentagend(P) EXCEPT !.state = IF P.inRCDATA THEN "InRCDATA"
                                           ELSE "Text",
                                 !.sectionStart = P.index + 1]
    ELSE IF c = "/"
    THEN LET S == [P EXCEPT !.state = "InSelfClosingTag"]
         IN  IF peek(P) # ">" THEN emitError(S, "UNEXPECTED_SOLIDUS_IN_TAG") ELSE S
    ELSE IF c = "<" /\ peek(P) = "/"
    THEN [onopentagend(P) EXCEPT !.state = "BeforeTagName",
                                 !.sectionStart = P.index]
    ELSE IF ~isWhitespace(c)
    THEN handleAttrStart(
             IF c = "="
             THEN emitError(P, "UNEXPECTED_EQUALS_SIGN_BEFORE_ATTRIBUTE_NAME")
             ELSE P, c)
    ELSE P

\* stateInTagName and handleTagName (reactiveEffect.ts:1195-1216)
handleTagName(P, c) ==
    stateBeforeAttrName(
        [onopentagname(P, P.sectionStart, P.index)
         EXCEPT !.sectionStart = -1, !.state = "BeforeAttrName"], c)

stateInTagName(P, c) == IF isEndOfTagSection(c) THEN handleTagName(P, c) ELSE P

\* startSpecial and enterRCDATA (reactiveEffect.ts:1134-1143)
enterRCDATA(P, sequence, offset) ==
    [P EXCEPT !.inRCDATA = TRUE, !.currentSequence = sequence,
              !.sequenceIndex = offset]

startSpecial(P, sequence, offset) ==
    [enterRCDATA(P, sequence, offset) EXCEPT !.state = "SpecialStartSequence"]

\* stateBeforeSpecialS (reactiveEffect.ts:1505-1515)
stateBeforeSpecialS(P, c) ==
    IF orSpace(c) = Sequences.ScriptEnd[4] THEN startSpecial(P, "ScriptEnd", 4)
    ELSE IF orSpace(c) = Sequences.StyleEnd[4] THEN startSpecial(P, "StyleEnd", 4)
    ELSE stateInTagName([P EXCEPT !.state = "InTagName"], c)

\* stateBeforeSpecialT (reactiveEffect.ts:1516-1526)
stateBeforeSpecialT(P, c) ==
    IF orSpace(c) = Sequences.TitleEnd[4] THEN startSpecial(P, "TitleEnd", 4)
    ELSE IF orSpace(c) = Sequences.TextareaEnd[4]
    THEN startSpecial(P, "TextareaEnd", 4)
    ELSE stateInTagName([P EXCEPT !.state = "InTagName"], c)

\* stateSpecialStartSequence (reactiveEffect.ts:990-1008)
stateSpecialStartSequence(P, c) ==
    LET seq     == Sequences[P.currentSequence]
        isEnd   == P.sequenceIndex = Len(seq)
        isMatch == IF isEnd THEN isEndOfTagSection(c)
                   ELSE orSpace(c) = seq[P.sequenceIndex + 1]
    IN  IF isMatch /\ ~isEnd THEN [P EXCEPT !.sequenceIndex = @ + 1]
        ELSE stateInTagName([P EXCEPT !.inRCDATA = IF isMatch THEN @ ELSE FALSE,
                                      !.sequenceIndex = 0,
                                      !.state = "InTagName"], c)

\* stateBeforeClosingTagName (reactiveEffect.ts:1219-1236)
stateBeforeClosingTagName(P, c) ==
    IF isWhitespace(c) THEN P
    ELSE IF c = ">"
    THEN [emitError(P, "MISSING_END_TAG_NAME")
          EXCEPT !.state = "Text", !.sectionStart = P.index + 1]
    ELSE [P EXCEPT !.state = IF isTagStartChar(c) THEN "InClosingTagName"
                             ELSE "InSpecialComment",
                   !.sectionStart = P.index]

\* stateAfterClosingTagName (reactiveEffect.ts:1246-1252)
stateAfterClosingTagName(P, c) ==
    IF c = ">" THEN [P EXCEPT !.state = "Text", !.sectionStart = P.index + 1]
    ELSE P

\* stateInClosingTagName (reactiveEffect.ts:1238-1245)
stateInClosingTagName(P, c) ==
    IF c = ">" \/ isWhitespace(c)
    THEN stateAfterClosingTagName(
             [onclosetag(P, P.sectionStart, P.index)
              EXCEPT !.sectionStart = -1, !.state = "AfterClosingTagName"], c)
    ELSE P

\* stateInRCDATA (reactiveEffect.ts:1011-1057), after the end of the
\* sequence is dealt with
lookForEndTag(P, c) ==
    LET seq == Sequences[P.currentSequence]
        ff  == fastForwardTo(P, "<")
    IN  IF orSpace(c) = seq[P.sequenceIndex + 1]
        THEN [P EXCEPT !.sequenceIndex = @ + 1]
        ELSE IF P.sequenceIndex = 0
        THEN IF \/ P.currentSequence = "TitleEnd"
                \/ P.currentSequence = "TextareaEnd" /\ ~inSFCRoot(P)
             THEN IF c = "&" THEN startEntity(P)
                  ELSE IF c = delimiterOpen[1]
                  THEN stateInterpolationOpen(
                           [P EXCEPT !.state = "InterpolationOpen",
                                     !.delimiterIndex = 0], c)
                  ELSE P
             ELSE [P EXCEPT !.index = ff.index,
                            !.sequenceIndex = IF ff.found THEN 1 ELSE @]
        ELSE [P EXCEPT !.sequenceIndex = IF c = "<" THEN 1 ELSE 0]

stateInRCDATA(P, c) ==
    LET seq       == Sequences[P.currentSequence]
        endOfText == P.index - Len(seq)
    IN  IF P.sequenceIndex = Len(seq)
        THEN IF c = ">" \/ isWhitespace(c)
             THEN Then(Then(IF P.sectionStart < endOfText
                            THEN ontext(P, P.sectionStart, endOfText) ELSE P,
                            LAMBDA T : stateInClosingTagName(
                                [T EXCEPT !.sectionStart = endOfText + 2], c)),
                       LAMBDA T : [T EXCEPT !.inRCDATA = FALSE])
             ELSE lookForEndTag([P EXCEPT !.sequenceIndex = 0], c)
        ELSE lookForEndTag(P, c)

\* stateInSelfClosingTag (reactiveEffect.ts:1311-1321)
stateInSelfClosingTag(P, c) ==
    IF c = ">"
    THEN Then(SetState(onselfclosingtag(P), "Text", P.index + 1),
              LAMBDA T : [T EXCEPT !.inRCDATA = FALSE])
    ELSE IF ~isWhitespace(c)
    THEN stateBeforeAttrName([P EXCEPT !.state = "BeforeAttrName"], c)
    ELSE P

\* stateAfterAttrName (reactiveEffect.ts:1393-1405)
stateAfterAttrName(P, c) ==
    IF c = "=" THEN [P EXCEPT !.state = "BeforeAttrValue"]
    ELSE IF c = "/" \/ c = ">"
    THEN stateBeforeAttrName(
             [onattribend(P, "NoValue")
              EXCEPT !.sectionStart = -1, !.state = "BeforeAttrName"], c)
    ELSE IF ~isWhitespace(c)
    THEN handleAttrStart(onattribend(P, "NoValue"), c)
    ELSE P

\* handleAttrNameEnd (reactiveEffect.ts:1387-1392)
handleAttrNameEnd(P, c) ==
    Then(onattribnameend(
             [P EXCEPT !.sectionStart = P.index, !.state = "AfterAttrName"],
             P.index),
         LAMBDA T : stateAfterAttrName(T, c))

\* stateInAttrName (reactiveEffect.ts:1322-1337)
stateInAttrName(P, c) ==
    IF c = "=" \/ isEndOfTagSection(c)
    THEN handleAttrNameEnd(onattribname(P, P.sectionStart, P.index), c)
    ELSE IF c \in {"\"", "'", "<"}
    THEN emitError(P, "UNEXPECTED_CHARACTER_IN_ATTRIBUTE_NAME")
    ELSE P

\* stateInDirName (reactiveEffect.ts:1338-1351)
stateInDirName(P, c) ==
    IF c = "=" \/ isEndOfTagSection(c)
    THEN handleAttrNameEnd(ondirname(P, P.sectionStart, P.index), c)
    ELSE IF c = ":"
    THEN [ondirname(P, P.sectionStart, P.index)
          EXCEPT !.state = "InDirArg", !.sectionStart = P.index + 1]
    ELSE IF c = "."
    THEN [ondirname(P, P.sectionStart, P.index)
          EXCEPT !.state = "InDirModifier", !.sectionStart = P.index + 1]
    ELSE P

\* stateInDirArg (reactiveEffect.ts:1352-1363)
stateInDirArg(P, c) ==
    IF c = "=" \/ isEndOfTagSection(c)
    THEN handleAttrNameEnd(ondirarg(P, P.sectionStart, P.index), c)
    ELSE IF c = "["
    THEN [P EXCEPT !.state = "InDirDynamicArg"]
    ELSE IF c = "."
    THEN [ondirarg(P, P.sectionStart, P.index)
          EXCEPT !.state = "InDirModifier", !.sectionStart = P.index + 1]
    ELSE P

\* stateInDynamicDirArg (reactiveEffect.ts:1364-1377)
stateInDynamicDirArg(P, c) ==
    IF c = "]" THEN [P EXCEPT !.state = "InDirArg"]
    ELSE IF c = "=" \/ isEndOfTagSection(c)
    THEN Then(handleAttrNameEnd(ondirarg(P, P.sectionStart, P.index + 1), c),
              LAMBDA T : emitError(T, "X_MISSING_DYNAMIC_DIRECTIVE_ARGUMENT_END"))
    ELSE P

\* stateInDirModifier (reactiveEffect.ts:1378-1386)
stateInDirModifier(P, c) ==
    IF c = "=" \/ isEndOfTagSection(c)
    THEN handleAttrNameEnd(ondirmodifier(P, P.sectionStart, P.index), c)
    ELSE IF c = "."
    THEN [ondirmodifier(P, P.sectionStart, P.index)
          EXCEPT !.sectionStart = P.index + 1]
    ELSE P

\* handleInAttrValue (reactiveEffect.ts:1421-1433); quote is the character
handleInAttrValue(P, c, quote) ==
    IF c = quote
    THEN [onattribend([onattribdata(P, P.sectionStart, P.index)
                       EXCEPT !.sectionStart = -1],
                      IF quote = "\"" THEN "Double" ELSE "Single")
          EXCEPT !.state = "BeforeAttrName"]
    ELSE P

\* stateInAttrValueNoQuotes (reactiveEffect.ts:1442-1463)
stateInAttrValueNoQuotes(P, c) ==
    IF isWhitespace(c) \/ c = ">"
    THEN stateBeforeAttrName(
             [onattribend([onattribdata(P, P.sectionStart, P.index)
                           EXCEPT !.sectionStart = -1], "Unquoted")
              EXCEPT !.state = "BeforeAttrName"], c)
    ELSE IF c \in {"\"", "'", "<", "=", GraveAccent}
    THEN emitError(P, "UNEXPECTED_CHARACTER_IN_UNQUOTED_ATTRIBUTE_VALUE")
    ELSE P

\* stateBeforeAttrValue (reactiveEffect.ts:1408-1420)
stateBeforeAttrValue(P, c) ==
    IF c = "\""
    THEN [P EXCEPT !.state = "InAttrValueDq", !.sectionStart = P.index + 1]
    ELSE IF c = "'"
    THEN [P EXCEPT !.state = "InAttrValueSq", !.sectionStart = P.index + 1]
    ELSE IF ~isWhitespace(c)
    THEN stateInAttrValueNoQuotes(
             [P EXCEPT !.sectionStart = P.index, !.state = "InAttrValueNq"], c)
    ELSE P

\* stateBeforeDeclaration (reactiveEffect.ts:1464-1472)
stateBeforeDeclaration(P, c) ==
    IF c = "["
    THEN [P EXCEPT !.state = "CDATASequence", !.sequenceIndex = 0]
    ELSE [P EXCEPT !.state = IF c = "-" THEN "BeforeComment" ELSE "InDeclaration"]

\* stateInProcessingInstruction (reactiveEffect.ts:1480-1486)
stateInProcessingInstruction(P, c) ==
    LET ff == fastForwardTo(P, ">")
        at == IF c = ">" THEN P.index ELSE ff.index
    IN  IF c = ">" \/ ff.found
        THEN [onprocessinginstruction(P)
              EXCEPT !.index = at, !.state = "Text", !.sectionStart = at + 1]
        ELSE [P EXCEPT !.index = ff.index]

\* stateBeforeComment (reactiveEffect.ts:1487-1497)
stateBeforeComment(P, c) ==
    IF c = "-"
    THEN [P EXCEPT !.state = "InCommentLike", !.currentSequence = "CommentEnd",
                   !.sequenceIndex = 2, !.sectionStart = P.index + 1]
    ELSE [P EXCEPT !.state = "InDeclaration"]

\* stateInSpecialComment (reactiveEffect.ts:1498-1504)
stateInSpecialComment(P, c) ==
    LET ff == fastForwardTo(P, ">")
        at == IF c = ">" THEN P.index ELSE ff.index
    IN  IF c = ">" \/ ff.found
        THEN [oncomment(P, P.sectionStart, at)
              EXCEPT !.index = at, !.state = "Text", !.sectionStart = at + 1]
        ELSE [P EXCEPT !.index = ff.index]

\* the switch of Tokenizer.parse (reactiveEffect.ts:1572-1709)
dispatch(P, c) ==
    CASE P.state = "Text" -> stateText(P, c)
      [] P.state = "InterpolationOpen" -> stateInterpolationOpen(P, c)
      [] P.state = "Interpolation" -> stateInterpolation(P, c)
      [] P.state = "InterpolationClose" -> stateInterpolationClose(P, c)
      [] P.state = "SpecialStartSequence" -> stateSpecialStartSequence(P, c)
      [] P.state = "InRCDATA" -> stateInRCDATA(P, c)
      [] P.state = "CDATASequence" -> stateCDATASequence(P, c)
      [] P.state = "InAttrValueDq" -> handleInAttrValue(P, c, "\"")
      [] P.state = "InAttrName" -> stateInAttrName(P, c)
      [] P.state = "InDirName" -> stateInDirName(P, c)
      [] P.state = "InDirArg" -> stateInDirArg(P, c)
      [] P.state = "InDirDynamicArg" -> stateInDynamicDirArg(P, c)
      [] P.state = "InDirModifier" -> stateInDirModifier(P, c)
      [] P.state = "InCommentLike" -> stateInCommentLike(P, c)
      [] P.state = "InSpecialComment" -> stateInSpecialComment(P, c)
      [] P.state = "BeforeAttrName" -> stateBeforeAttrName(P, c)
      [] P.state = "InTagName" -> stateInTagName(P, c)
      [] P.state = "InClosingTagName" -> stateInClosingTagName(P, c)
      [] P.state = "BeforeTagName" -> stateBeforeTagName(P, c)
      [] P.state = "AfterAttrName" -> stateAfterAttrName(P, c)
      [] P.state = "InAttrValueSq" -> handleInAttrValue(P, c, "'")
      [] P.state = "BeforeAttrValue" -> stateBeforeAttrValue(P, c)
      [] P.state = "BeforeClosingTagName" -> stateBeforeClosingTagName(P, c)
      [] P.state = "AfterClosingTagName" -> stateAfterClosingTagName(P, c)
      [] P.state = "InAttrValueNq" -> stateInAttrValueNoQuotes(P, c)
      [] P.state = "InSelfClosingTag" -> stateInSelfClosingTag(P, c)
      [] P.state = "InDeclaration" -> stateInDeclaration(P, c)
      [] P.state = "BeforeDeclaration" -> stateBeforeDeclaration(P, c)
      [] P.state = "BeforeComment" -> stateBeforeComment(P, c)
      [] P.state = "BeforeSpecialS" -> stateBeforeSpecialS(P, c)
      [] P.state = "BeforeSpecialT" -> stateBeforeSpecialT(P, c)
      [] P.state = "InProcessingInstruction" -> stateInProcessingInstruction(P, c)

\* cleanup (reactiveEffect.ts:1719-1737)
tokenizerCleanup(P) ==
    IF P.sectionStart = P.index THEN P
    ELSE IF P.state = "Text" \/ (P.state = "InRCDATA" /\ P.sequenceIndex = 0)
    THEN [ontext(P, P.sectionStart, P.index) EXCEPT !.sectionStart = P.index]
    ELSE IF P.state \in {"InAttrValueDq", "InAttrValueSq", "InAttrValueNq"}
    THEN [onattribdata(P, P.sectionStart, P.index) EXCEPT !.sectionStart = P.index]
    ELSE P

\* handleTrailingData (reactiveEffect.ts:1751-1787)
handleTrailingData(P) ==
    LET endIndex == Len(buffer)
    IN  IF P.sectionStart >= endIndex THEN P
        ELSE IF P.state = "InCommentLike"
        THEN IF P.currentSequence = "CdataEnd"
             THEN oncdata(P, P.sectionStart, endIndex)
             ELSE oncomment(P, P.sectionStart, endIndex)
        ELSE IF P.state \in {"InTagName", "BeforeAttrName", "BeforeAttrValue",
                             "AfterAttrName", "InAttrName", "InDirName",
                             "InDirArg", "InDirDynamicArg", "InDirModifier",
                             "InAttrValueSq", "InAttrValueDq", "InAttrValueNq",
                             "InClosingTagName"}
        THEN P
        ELSE ontext(P, P.sectionStart, endIndex)

\* finish (reactiveEffect.ts:1739-1748)
finish(P) == Then(handleTrailingData(P), onend)

\* the assignment of a record of the parser, computed once, to the variables
SetParser(record, running) ==
    \E P \in {record} :
        /\ parsing' = (running /\ ~P.threw)
        /\ state' = P.state
        /\ index' = P.index
        /\ sectionStart' = P.sectionStart
        /\ sequenceIndex' = P.sequenceIndex
        /\ delimiterIndex' = P.delimiterIndex
        /\ currentSequence' = P.currentSequence
        /\ tokenizerInVPre' = P.tokenizerInVPre
        /\ inRCDATA' = P.inRCDATA
        /\ inXML' = P.inXML
        /\ mode' = P.mode
        /\ called' = P.called
        /\ currentOptions' = P.currentOptions
        /\ currentOpenTag' = P.currentOpenTag
        /\ currentProp' = P.currentProp
        /\ currentAttrValue' = P.currentAttrValue
        /\ inPre' = P.inPre
        /\ inVPre' = P.inVPre
        /\ currentVPreBoundary' = P.currentVPreBoundary
        /\ parserStack' = P.stack
        /\ elements' = P.elements
        /\ root' = P.root
        /\ errors' = P.errors
        /\ parseThrew' = P.threw

\* the options of a call of baseParse over defaultParserOptions
\* (part_007:68-80): the whitespace option and the tags for which isVoidTag
\* and isPreTag answer true; comments is __DEV__
ParserOptions(whitespace, voidTags, preTags) ==
    [whitespace |-> whitespace, isVoidTag |-> voidTags, isPreTag |-> preTags,
     comments |-> TRUE, parseMode |-> "base", ns |-> "HTML"]

\* the options o with parseMode: 'html'
HtmlOptions(o) == [o EXCEPT !.parseMode = "html"]

defaultParserOptions == ParserOptions("condense", {}, {})

\* the inputs of a behaviour: templates are made of at most max of the
\* fragments frags, each parsed under one of options
Grammar(frags, options, limit) ==
    [frags |-> frags, options |-> options, max |-> limit]

RECURSIVE Flatten(_)
Flatten(seqs) == IF seqs = <<>> THEN <<>> ELSE Head(seqs) \o Flatten(Tail(seqs))

\* the module of the parser after it is loaded
InitParser(grammars) ==
    /\ grammar \in grammars
    /\ fed = 0
    /\ buffer = <<>>
    /\ state = "Text"
    /\ index = 0
    /\ sectionStart = 0
    /\ sequenceIndex = 0
    /\ delimiterIndex = -1
    /\ currentSequence = "undefined"
    /\ tokenizerInVPre = FALSE
    /\ inRCDATA = FALSE
    /\ inXML = FALSE
    /\ mode = "BASE"
    /\ called = <<>>
    /\ currentOptions = defaultParserOptions
    /\ currentOpenTag = 0
    /\ currentProp = NullProp
    /\ currentAttrValue = <<>>
    /\ inPre = 0
    /\ inVPre = FALSE
    /\ currentVPreBoundary = 0
    /\ parserStack = <<>>
    /\ elements = <<>>
    /\ root = <<>>
    /\ errors = <<>>
    /\ parseThrew = FALSE
    /\ parsing = FALSE

\* baseParse(input, options) up to the call of tokenizer.parse
\* (part_007:1092-1141), with reset (part_007:1081-1089) and Tokenizer.reset
\* (reactiveEffect.ts:877-889); the elements of the tree of an earlier call
\* are dropped, a reference kept to one of them stays
baseParse(fragments, options) ==
    /\ ~parsing
    /\ fragments # <<>>
    /\ fed + Len(fragments) <= grammar.max
    /\ fed' = fed + Len(fragments)
    /\ buffer' = Flatten(fragments)
    /\ state' = "Text"
    /\ index' = 0
    /\ sectionStart' = 0
    /\ currentSequence' = "undefined"
    /\ currentOpenTag' = 0
    /\ currentProp' = NullProp
    /\ currentAttrValue' = <<>>
    /\ parserStack' = <<>>
    /\ currentOptions' = options
    /\ elements' = <<>>
    /\ currentVPreBoundary' = IF currentVPreBoundary = 0 THEN 0 ELSE -1
    /\ root' = <<>>
    /\ errors' = <<>>
    /\ parseThrew' = FALSE
    /\ parsing' = TRUE
    /\ inRCDATA' = FALSE
    /\ mode' = IF options.parseMode = "html" THEN "HTML"
               ELSE IF options.parseMode = "sfc" THEN "SFC" ELSE "BASE"
    /\ inXML' = (options.ns \in {"SVG", "MATH_ML"})
    /\ called' = <<>>
    /\ UNCHANGED <<notParser, grammar, sequenceIndex, delimiterIndex,
                   tokenizerInVPre, inPre, inVPre>>

\* one iteration of the loop of Tokenizer.parse (reactiveEffect.ts:1567-1711)
parse ==
    /\ parsing
    /\ index < Len(buffer)
    /\ SetParser(Then(dispatch(Parser, charCodeAt(index)),
                      LAMBDA T : [T EXCEPT !.index = @ + 1]), TRUE)
    /\ UNCHANGED <<notParser, grammar, fed, buffer>>

\* the end of Tokenizer.parse (reactiveEffect.ts:1712-1713) and the rest of
\* baseParse (part_007:1143-1149)
baseParseReturn ==
    /\ parsing
    /\ index >= Len(buffer)
    /\ SetParser(Then(finish(tokenizerCleanup(Parser)),
                      LAMBDA T : [T EXCEPT !.root =
                          condenseWhitespace(@, FALSE, T.currentOptions.whitespace,
                                             T.inPre)]), FALSE)
    /\ UNCHANGED <<notParser, grammar, fed, buffer>>

NextParser ==
    \/ /\ ~parsing
       /\ \E n \in 1..(grammar.max - fed) :
              \E fragments \in [1..n -> grammar.frags] :
                  \E options \in grammar.options : baseParse(fragments, options)
    \/ parse
    \/ baseParseReturn

----------------------------------------------------------------------------
(* condenseWhitespace as a function of its argument and of the module       *)
(* variables it reads.                                                      *)

\* the call is about to be made; a pre tag is closed with inPre > 0, since
\* endOpenTag has counted it (part_007:612-614)
InitCondense(lists, options, depths) ==
    /\ givenNodes \in lists
    /\ givenWhitespace \in options
    /\ givenInPre \in depths
    /\ givenTagIsPre \in {b \in BOOLEAN : b => givenInPre > 0}
    /\ returned = FALSE
    /\ returnedNodes = <<>>

condenseWhitespaceCall ==
    /\ ~returned
    /\ returned' = TRUE
    /\ returnedNodes' = condenseWhitespace(givenNodes, givenTagIsPre,
                                           givenWhitespace, givenInPre)
    /\ UNCHANGED <<notCondense, givenNodes, givenTagIsPre, givenWhitespace,
                   givenInPre>>

----------------------------------------------------------------------------
(* watch of part_001:428-468.  The source changes as it likes; every change *)
(* calls the scheduler of the watcher's effect.  The callback cb is user    *)
(* code: a call of it gives onInvalidate a new function or does not.        *)

\* the jobs of one behaviour
MaxJobs == 5

WatchOptions(immediate, flush) == [immediate |-> immediate, flush |-> flush]

InitWatch(options) ==
    /\ watchOptions \in options
    /\ watched = FALSE
    /\ watchCleanup = 0
    /\ microtasks = 0
    /\ cbCalls = 0
    /\ registeredIn = <<>>
    /\ cleanupRuns = <<>>

\* job() of watch (part_001:456-463); invalidates: cb calls onInvalidate(fn) with a
\* new function fn, which onInvalidate (439-441) stores in cleanup
watchJob(invalidates) ==
    /\ cbCalls < MaxJobs
    /\ cbCalls' = cbCalls + 1
    /\ registeredIn' = IF invalidates THEN Append(registeredIn, cbCalls + 1)
                       ELSE registeredIn
    /\ cleanupRuns' =
           LET ran == IF watchCleanup # 0
                      THEN [cleanupRuns EXCEPT ![watchCleanup] = @ + 1]
                      ELSE cleanupRuns
           IN  IF invalidates THEN Append(ran, 0) ELSE ran
    /\ watchCleanup' = IF invalidates THEN Len(registeredIn) + 1 ELSE watchCleanup

\* watch(source, cb, options) (part_001:428-468)
watch ==
    /\ ~watched
    /\ watched' = TRUE
    /\ IF watchOptions.immediate
       THEN \E invalidates \in BOOLEAN : watchJob(invalidates)
       ELSE UNCHANGED <<watchCleanup, cbCalls, registeredIn, cleanupRuns>>
    /\ UNCHANGED <<notWatch, watchOptions, microtasks>>

\* the scheduler of the watcher's effect (part_001:445-453), called by a
\* trigger of the source
watchScheduler ==
    /\ watched
    /\ IF watchOptions.flush = "post"
       THEN /\ microtasks + cbCalls < MaxJobs
            /\ microtasks' = microtasks + 1
            /\ UNCHANGED <<watchCleanup, cbCalls, registeredIn, cleanupRuns>>
       ELSE /\ \E invalidates \in BOOLEAN : watchJob(invalidates)
            /\ UNCHANGED microtasks
    /\ UNCHANGED <<notWatch, watchOptions, watched>>

\* a microtask queued by the scheduler runs (part_001:448-450)
watchMicrotask ==
    /\ microtasks > 0
    /\ microtasks' = microtasks - 1
    /\ \E invalidates \in BOOLEAN : watchJob(invalidates)
    /\ UNCHANGED <<notWatch, watchOptions, watched>>

NextWatch == watch \/ watchScheduler \/ watchMicrotask

----------------------------------------------------------------------------
(* The blocks of part_000.  User code (a render function) calls openBlock,  *)
(* closeBlock, createVNode and createBlock as it likes.                     *)

\* the calls of one behaviour
MaxBlockCalls == 5

\* the module after it is loaded (part_000:1-2)
InitBlock ==
    /\ arrays = <<(<<>>)>>
    /\ dynamicChildStack = <<>>
    /\ currentDynamicChildren = 1
    /\ vnodes = <<>>
    /\ blockThrew = FALSE
    /\ blockCalls = 0

\* typeof flags !== undefined (part_000:24): typeof gives a string, which is
\* never the value undefined
typeofIsNotUndefined(flags) == TRUE

\* the arrays after createVNode has made its vnode with the given flags and
\* tested it (part_000:16-26); into is currentDynamicChildren
pushed(lists, into, flags) ==
    IF typeofIsNotUndefined(flags) /\ into # 0
    THEN [lists EXCEPT ![into] = Append(@, Len(vnodes) + 1)]
    ELSE lists

\* openBlock (part_000:4-6)
openBlock ==
    /\ blockCalls < MaxBlockCalls
    /\ blockCalls' = blockCalls + 1
    /\ arrays' = Append(arrays, <<>>)
    /\ currentDynamicChildren' = Len(arrays) + 1
    /\ dynamicChildStack' = Append(dynamicChildStack, Len(arrays) + 1)
    /\ blockThrew' = FALSE
    /\ UNCHANGED <<notBlock, vnodes>>

\* closeBlock (part_000:8-10); pop of an empty array gives undefined
closeBlock ==
    /\ blockCalls < MaxBlockCalls
    /\ blockCalls' = blockCalls + 1
    /\ currentDynamicChildren' =
           IF dynamicChildStack = <<>> THEN 0
           ELSE dynamicChildStack[Len(dynamicChildStack)]
    /\ dynamicChildStack' =
           IF dynamicChildStack = <<>> THEN <<>>
           ELSE SubSeq(dynamicChildStack, 1, Len(dynamicChildStack) - 1)
    /\ blockThrew' = FALSE
    /\ UNCHANGED <<notBlock, arrays, vnodes>>

\* createVNode(tag, props, children, flags) (part_000:12-29): return node
\* names no variable of the module, so the call ends by a ReferenceError
\* after the vnode is made and pushed
createVNode(flags) ==
    /\ blockCalls < MaxBlockCalls
    /\ blockCalls' = blockCalls + 1
    /\ vnodes' = Append(vnodes, [patchFlags |-> flags, block |-> FALSE])
    /\ arrays' = pushed(arrays, currentDynamicChildren, flags)
    /\ blockThrew' = TRUE
    /\ UNCHANGED <<notBlock, dynamicChildStack, currentDynamicChildren>>

\* createBlock(tag, props, children) (part_000:31-37): openBlock, then
\* createVNode without flags, whose exception ends the call before
\* dynamicChildren is set and closeBlock is called
createBlock ==
    /\ blockCalls < MaxBlockCalls
    /\ blockCalls' = blockCalls + 1
    /\ vnodes' = Append(vnodes, [patchFlags |-> Undefined, block |-> TRUE])
    /\ arrays' = pushed(Append(arrays, <<>>), Len(arrays) + 1, Undefined)
    /\ currentDynamicChildren' = Len(arrays) + 1
    /\ dynamicChildStack' = Append(dynamicChildStack, Len(arrays) + 1)
    /\ blockThrew' = TRUE
    /\ UNCHANGED notBlock

NextBlock ==
    \/ openBlock
    \/ closeBlock
    \/ \E flags \in {Undefined, 1} : createVNode(flags)
    \/ createBlock

----------------------------------------------------------------------------
(* The deps that trigger collects (reactiveEffect.ts:84-204), as a function *)
(* of its arguments and of the depsMap of the target.  A dep is named by    *)
(* its key; the keys of a depsMap are those the handlers of the kind of     *)
(* target track: an array has "length", indices and other properties, an    *)
(* object has properties and ITERATE_KEY, a Map and a Set have their keys,  *)
(* ITERATE_KEY and (a Map) MAP_KEY_ITERATE_KEY.                             *)

\* the new lengths considered
MaxLength == 3

ITERATE_KEY == "Symbol(iterate)"
MAP_KEY_ITERATE_KEY == "Symbol(Map key iterate)"
NoKey == "undefined"
NoDep == "undefined"

isArray(target) == target = "array"
isMap(target) == target = "map"
isSymbol(key) == key \in {ITERATE_KEY, MAP_KEY_ITERATE_KEY}

\* the keys that are strings of a non-negative integer in canonical form
IndexKeys == {"0", "1", "2"}
isIntegerKey(key) == key \in IndexKeys

\* Number(key) of an index key
ToNumber(key) == CASE key = "0" -> 0 [] key = "1" -> 1 [] key = "2" -> 2

\* key > newLength
GreaterThan(key, newLength) ==
    IF key \in IndexKeys THEN ToNumber(key) > newLength ELSE FALSE

\* key >= newLength: a string that is no number converts to NaN, and every
\* comparison with NaN is false
GreaterEq(key, newLength) ==
    IF key \in IndexKeys THEN ToNumber(key) >= newLength ELSE FALSE

\* the keys a depsMap of a target of this kind may hold, in the order of
\* insertion considered
KeysOf(target) ==
    CASE target = "array"  -> <<"length", "0", "1", "2", "foo">>
      [] target = "object" -> <<"foo", "bar", ITERATE_KEY>>
      [] target = "map"    -> <<"foo", "bar", ITERATE_KEY, MAP_KEY_ITERATE_KEY>>
      [] target = "set"    -> <<"foo", ITERATE_KEY>>

TargetKinds == {"array", "object", "map", "set"}

SetOfSeq(items) == {items[p] : p \in 1..Len(items)}

\* depsMap.get(key)
depsMapGet(depsMap, key) == IF key \in SetOfSeq(depsMap) THEN key ELSE NoDep

\* the calls the handlers make: CLEAR comes from the clear method of a Map or
\* a Set and has no key; the others name a key that is no symbol; newLength
\* is Number(newValue) of a write to the length of an array
TriggerCalls ==
    { [target |-> t, tracked |-> tr,
       depsMap |-> SelectSeq(KeysOf(t), LAMBDA d : d \in ks),
       type |-> ty, key |-> k, newLength |-> n] :
        t \in TargetKinds, tr \in BOOLEAN,
        ks \in SUBSET {"length", "0", "1", "2", "foo", "bar",
                       ITERATE_KEY, MAP_KEY_ITERATE_KEY},
        ty \in {"set", "add", "delete", "clear"},
        k \in {"length", "0", "1", "foo", NoKey}, n \in 0..MaxLength }

RealCall(c) ==
    /\ c.tracked \/ c.depsMap = <<>>
    /\ (c.type = "clear") <=> (c.key = NoKey)
    /\ c.type = "clear" => c.target \in {"map", "set"}
    /\ c.key \in IndexKeys \cup {"length"} => isArray(c.target)
    /\ (c.key = "length") => c.type = "set"
    /\ (c.key # "length") => c.newLength = 0

\* a trigger that collects the dep of the written key only
collectKeyOnly(c) ==
    IF ~c.tracked THEN <<>>
    ELSE IF c.key # NoKey THEN <<depsMapGet(c.depsMap, c.key)>> ELSE <<>>

\* the array deps of trigger when it reaches its loop (reactiveEffect.ts:98-182)
collect(c) ==
    IF ~c.tracked THEN <<>>
    ELSE IF c.type = "clear" THEN c.depsMap
    ELSE IF c.key = "length" /\ isArray(c.target)
    THEN SelectSeq(c.depsMap,
                   LAMBDA d : d = "length"
                              \/ (~isSymbol(d) /\ GreaterEq(d, c.newLength)))
    ELSE (IF c.key # NoKey THEN <<depsMapGet(c.depsMap, c.key)>> ELSE <<>>)
         \o (CASE c.type = "add" ->
                    IF ~isArray(c.target)
                    THEN <<depsMapGet(c.depsMap, ITERATE_KEY)>>
                         \o (IF isMap(c.target)
                             THEN <<depsMapGet(c.depsMap, MAP_KEY_ITERATE_KEY)>>
                             ELSE <<>>)
                    ELSE IF isIntegerKey(c.key)
                         THEN <<depsMapGet(c.depsMap, "length")>>
                         ELSE <<>>
               [] c.type = "delete" ->
                    IF ~isArray(c.target)
                    THEN <<depsMapGet(c.depsMap, ITERATE_KEY)>>
                         \o (IF isMap(c.target)
                             THEN <<depsMapGet(c.depsMap, MAP_KEY_ITERATE_KEY)>>
                             ELSE <<>>)
                    ELSE <<>>
               [] c.type = "set" ->
                    IF isMap(c.target)
                    THEN <<depsMapGet(c.depsMap, ITERATE_KEY)>>
                    ELSE <<>>)

\* before the call
InitCollect(given) ==
    /\ triggerCall \in given
    /\ collectDone = FALSE
    /\ collectedDeps = <<>>

\* user code, through a handler, calls trigger
triggerCollect ==
    /\ ~collectDone
    /\ collectDone' = TRUE
    /\ collectedDeps' = collect(triggerCall)
    /\ UNCHANGED <<notCollect, triggerCall>>

NextCollect == triggerCollect

\* the deps the loop at the end of trigger calls triggerEffects for: if (dep)
TriggeredDeps == SetOfSeq(collectedDeps) \ {NoDep}

----------------------------------------------------------------------------
(* transform of part_002:173-197: traverseNode walks the tree of nodes and  *)
(* calls the node transforms on each.  A node is a number, 0 the root; an   *)
(* array of children is the property of the node that owns it.  What a      *)
(* transform does to a node is user code: the first transform of the list   *)
(* leaves the node, removes it (as ignoreSideEffectTags does) or replaces   *)
(* it, and every transform returns an exit callback.                        *)

\* the nodes of a tree besides the root
MaxTreeNodes == 4

\* null, where a node may stand
NoNode == -1

\* what the first transform does with a node
NodeActs == {"keep", "remove", "replace"}

\* the node that replaces node
Replacement(node) == node + MaxTreeNodes + 1

\* the trees of n nodes under the root: node i hangs under a node before it,
\* a leaf is a Text without children or an Element, few nodes are changed
Shapes(n) == {up \in [1..n -> 0..(n - 1)] : \A i \in 1..n : up[i] < i}

Leaves(n, up) == {i \in 1..n : \A j \in 1..n : up[j] # i}

ActsOf(n) ==
    {[i \in 1..n |-> IF i = a THEN x ELSE IF i = b THEN y ELSE "keep"] :
        <<a, b, x, y>> \in (1..n) \X (1..n) \X NodeActs \X NodeActs}
        \cup {[i \in 1..n |-> "keep"]}

TreesOf(n) ==
    UNION {[n : {n}, up : {up}, text : {{}} \cup {{i} : i \in Leaves(n, up)},
            act : ActsOf(n)] : up \in Shapes(n)}

Trees == UNION {TreesOf(n) : n \in 0..MaxTreeNodes}

\* the numbers of set in ascending order
RECURSIVE Ascending(_)
Ascending(set) ==
    IF set = {} THEN <<>>
    ELSE LET least == CHOOSE x \in set : \A y \in set : x <= y
         IN  <<least>> \o Ascending(set \ {least})

\* node.children of the nodes of the tree t and of the replacement nodes
\* (empty arrays); a Text has no such property
hasChildren(t, node) == node \notin t.text

childrenOf(t) ==
    [node \in 0..(2 * MaxTreeNodes + 1) |->
        IF node <= t.n THEN Ascending({i \in 1..t.n : t.up[i] = node}) ELSE <<>>]

\* the transforms of context.nodeTransforms, by their place
nodeTransforms == <<1, 2>>

\* context of transform (part_002:174-193) with the arrays of children, the
\* history and whether an exception was thrown
Context(t) ==
    [currentNode |-> NoNode, childIndex |-> 0, parent |-> NoNode,
     children |-> childrenOf(t), log |-> <<>>, threw |-> FALSE]

\* array[i] = x of a JavaScript array (i from 0): past the end the array
\* grows, with holes that read as undefined
SetIndex(array, i, x) ==
    IF i < Len(array) THEN [array EXCEPT ![i + 1] = x]
    ELSE array \o [k \in 1..(i - Len(array)) |-> NoNode] \o <<x>>

\* context.replaceNode(node) (part_002:178-181)
replaceNode(t, C, node) ==
    IF C.parent = NoNode \/ ~hasChildren(t, C.parent) THEN [C EXCEPT !.threw = TRUE]
    ELSE [C EXCEPT !.children[C.parent] = SetIndex(@, C.childIndex, node),
                   !.currentNode = node]

\* array.splice(i, 1) (i from 0)
Splice1(array, i) ==
    IF i < Len(array) THEN SubSeq(array, 1, i) \o SubSeq(array, i + 2, Len(array))
    ELSE array

\* context.removeNode() (part_002:182-188)
removeNode(t, C) ==
    IF C.parent = NoNode THEN C
    ELSE IF ~hasChildren(t, C.parent) THEN [C EXCEPT !.threw = TRUE]
    ELSE [C EXCEPT !.children[C.parent] = Splice1(@, C.childIndex),
                   !.currentNode = NoNode, !.childIndex = -1]

\* trf(context.currentNode, context) of the transform trf: a transform reads
\* the type of its node, which throws for undefined
callTransform(t, C, trf) ==
    LET node   == C.currentNode
        L      == [C EXCEPT !.log = Append(@, <<"transform", trf, node>>)]
        change == IF trf = 1 /\ node \in 1..t.n THEN t.act[node] ELSE "keep"
    IN  IF node = NoNode THEN [C EXCEPT !.threw = TRUE]
        ELSE IF change = "remove" THEN removeNode(t, L)
        ELSE IF change = "replace" THEN replaceNode(t, L, Replacement(node))
        ELSE L

\* the loop over transforms of traverseNode (part_002:144-153) from the
\* transform at place i on; exitFns holds the callbacks returned so far. The
\* result says whether traverseNode returns at once
RECURSIVE applyTransforms(_, _, _, _)
applyTransforms(t, C, i, exitFns) ==
    IF i > Len(nodeTransforms)
    THEN [context |-> C, exitFns |-> exitFns, returns |-> FALSE]
    ELSE LET node == C.currentNode
             D    == callTransform(t, C, nodeTransforms[i])
             fns  == Append(exitFns, <<nodeTransforms[i], node>>)
         IN  IF D.threw \/ D.currentNode = NoNode
             THEN [context |-> D, exitFns |-> fns, returns |-> TRUE]
             ELSE applyTransforms(t, D, i + 1, fns)

\* the loop while (i--) exitFns[i]() (part_002:167-170)
RECURSIVE callExitFns(_, _, _)
callExitFns(C, exitFns, i) ==
    IF i = 0 THEN C
    ELSE callExitFns([C EXCEPT !.log = Append(@, <<"exit", exitFns[i][1],
                                                  exitFns[i][2]>>)],
                     exitFns, i - 1)

\* traverseNode (part_002:142-171) and its loop for (let child of children)
\* over the array of the node owner, from index i on: the iterator reads the
\* array as it is when it gets there
RECURSIVE traverseNode(_, _, _)
RECURSIVE traverseChildren(_, _, _, _)
traverseChildren(t, C, owner, i) ==
    IF C.threw \/ i >= Len(C.children[owner]) THEN C
    ELSE traverseChildren(
             t,
             traverseNode(t, [C EXCEPT !.parent = C.currentNode,
                                       !.childIndex = i],
                          C.children[owner][i + 1]),
             owner, i + 1)

traverseNode(t, C, node) ==
    LET A == applyTransforms(t, [C EXCEPT !.currentNode = node], 1, <<>>)
        D == A.context
    IN  IF A.returns THEN D
        ELSE LET W == IF hasChildren(t, D.currentNode)
                      THEN traverseChildren(t, D, D.currentNode, 0) ELSE D
             IN  IF W.threw THEN W ELSE callExitFns(W, A.exitFns, Len(A.exitFns))

\* transform(ast) (part_002:173-197) of the tree t
transform(t) == traverseNode(t, Context(t), 0)

\* before the call
InitWalk(trees) ==
    /\ ast \in trees
    /\ walkDone = FALSE
    /\ walkThrew = FALSE
    /\ walkChildren = <<>>
    /\ walkLog = <<>>

\* user code calls transform(ast)
transformCall ==
    /\ ~walkDone
    /\ walkDone' = TRUE
    /\ walkThrew' = transform(ast).threw
    /\ walkChildren' = transform(ast).children
    /\ walkLog' = transform(ast).log
    /\ UNCHANGED <<notCompiler, notWalk, ast>>

----------------------------------------------------------------------------
(* The recursive-descent parser of part_001:1-283.  A template is a        *)
(* sequence of characters without "&", so that decodeHtml returns its       *)
(* argument.  Of a node the model keeps the type.                           *)

MaxIters == 14

\* /[a-z]/i.test(c); an index beyond the string gives undefined, which test
\* turns into the string 'undefined'
Letters ==
    {"a", "b", "c", "d", "e", "f", "g", "h", "i", "j", "k", "l", "m", "n", "o",
     "p", "q", "r", "s", "t", "u", "v", "w", "x", "y", "z",
     "A", "B", "C", "D", "E", "F", "G", "H", "I", "J", "K", "L", "M", "N", "O",
     "P", "Q", "R", "S", "T", "U", "V", "W", "X", "Y", "Z"}
testLetter(str, n) == IF n > Len(str) THEN TRUE ELSE str[n] \in Letters

\* str.startsWith(pre)
startsWith(str, pre) == Len(str) >= Len(pre) /\ SubSeq(str, 1, Len(pre)) = pre

\* str.indexOf(pat) for a string pat
indexOfString(str, pat) ==
    LET hits == {n \in 0..(Len(str) - Len(pat)) :
                     SubSeq(str, n + 1, n + Len(pat)) = pat}
    IN  IF hits = {} THEN -1
        ELSE CHOOSE n \in hits : \A m \in hits : n <= m

\* the length of the longest prefix of str whose characters are all in Ok
Span(str, Ok(_)) ==
    LET bad == {n \in 1..Len(str) : ~Ok(str[n])}
    IN  IF bad = {} THEN Len(str)
        ELSE (CHOOSE n \in bad : \A m \in bad : n <= m) - 1

\* the context of parse (part_001:9-21); threw: an exception is on its way
DescentContext ==
    [source |-> descentSource, mode |-> descentMode, threw |-> FALSE]

raise(X) == [X EXCEPT !.threw = TRUE]

advanceBy(X, num) == [X EXCEPT !.source = slice(@, num, Len(@))]

advanceSpaces(X) == advanceBy(X, Span(X.source, isWhitespace))

\* F of the value of v: v is evaluated once, however often F uses it
Once(v, F(_)) == CHOOSE y \in {F(x) : x \in {v}} : TRUE

\* the value of an attribute (part_001:137-154), from the character after
\* the spaces that follow the name and its "=" on
attributeValue(X) ==
    LET ValueChar(c) == ~isWhitespace(c) /\ c # ">"
        isQuoted == X.source # <<>> /\ X.source[1] \in {"\"", "'"}
        endQuoteIndex == indexOfString(Tail(X.source), <<X.source[1]>>)
        value == Span(X.source, ValueChar)
    IN  IF isQuoted
        THEN advanceBy(X, IF endQuoteIndex > -1 THEN endQuoteIndex + 2 ELSE 1)
        ELSE IF value = 0 THEN raise(X)
        ELSE advanceBy(X, value)

\* the name of an attribute and the character after it (part_001:128-135)
attributeName(X) ==
    LET NameChar(c) == ~isWhitespace(c) /\ c \notin {"/", ">", "="}
    IN  Once(advanceBy(X, 1 + Span(Tail(X.source), NameChar)),
             LAMBDA A : Once(advanceBy(A, Span(A.source, isWhitespace) + 1),
                             advanceSpaces))

\* parseAttributes (part_001:124-162); match[0] of a failed match throws
RECURSIVE parseAttributes(_)
parseAttributes(X) ==
    LET NameStart(c) == ~isWhitespace(c) /\ c \notin {"/", ">"}
        Rest(V) == IF V.threw THEN V
                   ELSE Once(advanceSpaces(V), parseAttributes)
    IN  IF startsWith(X.source, <<">">>) \/ startsWith(X.source, <<"/", ">">>)
        THEN X
        ELSE IF X.source = <<>> \/ ~NameStart(X.source[1]) THEN raise(X)
        ELSE Once(attributeName(X), LAMBDA N : Once(attributeValue(N), Rest))

\* parseTag (part_001:100-122); match[1] of a failed match throws
parseTag(X, type) ==
    LET TagChar(c) == ~isWhitespace(c) /\ c \notin {"/", ">"}
        open == IF type = "start" THEN <<"<">> ELSE <<"<", "/">>
        src == X.source
        from == Len(open) + 1
        matched == /\ startsWith(src, open)
                   /\ Len(src) >= from /\ src[from] \in Letters
        n == 1 + Span(SubSeq(src, from + 1, Len(src)), TagChar)
        tag == SubSeq(src, from, from + n - 1)
        Ended(P) ==
            LET isSelfClosing == startsWith(P.source, <<"/", ">">>)
            IN  [context |-> IF P.threw THEN P
                             ELSE advanceBy(P, IF isSelfClosing THEN 2 ELSE 1),
                 tag |-> tag, isSelfClosing |-> isSelfClosing]
    IN  IF ~matched
        THEN [context |-> raise(X), tag |-> <<>>, isSelfClosing |-> FALSE]
        ELSE Once(advanceBy(X, Len(open) + n),
                  LAMBDA A : Once(advanceSpaces(A),
                                  LAMBDA B : Once(parseAttributes(B), Ended)))

\* the mode parseElement chooses for the children (part_001:80-86)
RawTextNames ==
    {<<"s", "t", "y", "l", "e">>, <<"x", "m", "p">>,
     <<"i", "f", "r", "a", "m", "e">>, <<"n", "o", "e", "m", "b", "e", "d">>,
     <<"n", "o", "f", "r", "a", "m", "e", "s">>,
     <<"n", "o", "s", "c", "r", "i", "p", "t">>}
childMode(tag) ==
    IF tag \in {<<"t", "e", "x", "t", "a", "r", "e", "a">>,
                <<"t", "i", "t", "l", "e">>}
    THEN "RCDATA"
    ELSE IF \E name \in RawTextNames : indexOfString(tag, name) > -1
    THEN "RAWTEXT"
    ELSE "DATA"

\* parseText (part_001:164-180)
parseText(X) ==
    LET ltIndex == indexOfString(X.source, <<"<">>)
        braceIndex == indexOfString(X.source, <<"{", "{">>)
        len == Len(X.source)
        e1 == IF ltIndex > -1 /\ ltIndex < len THEN ltIndex ELSE len
        endIndex == IF braceIndex > -1 /\ braceIndex < e1
                    THEN braceIndex ELSE e1
    IN  advanceBy(X, endIndex)

\* parseInterpolation (part_001:256-272) and parseComment (part_001:274-283):
\* the opening is skipped, then the content up to the closing, then the
\* length of the closing; slice(0, -1) is all but the last character
skipThrough(X, opening, closing) ==
    LET A == advanceBy(X, opening)
        closeIndex == indexOfString(A.source, closing)
        content == slice(A.source, 0, closeIndex)
    IN  advanceBy(advanceBy(A, Len(content)), Len(closing))
parseInterpolation(X) == skipThrough(X, 2, <<"}", "}">>)
parseComment(X) == skipThrough(X, 4, <<"-", "-", ">">>)

\* isEnd (part_001:61-74)
isEnd(src, open) ==
    \/ src = <<>>
    \/ \E n \in 1..Len(open) : startsWith(src, <<"<", "/">> \o open[n])

\* what one iteration of the loop of parseChildren (part_001:31-57) does up
\* to its push, or up to the loop of the children of the element it opens:
\* kind is the type of the node, "none" after continue, "throw" when
\* parseCDATA, which is defined nowhere, is called
iteration(X) ==
    LET src == X.source
        Made(kind, Y) == [kind |-> kind, context |-> Y, tag |-> <<>>, opens |-> FALSE]
        text == Made("Text", parseText(X))
        Element(T) ==
            [kind |-> "Element",
             context |-> IF T.context.threw \/ T.isSelfClosing
                         THEN T.context
                         ELSE [T.context EXCEPT !.mode = childMode(T.tag)],
             tag |-> T.tag,
             opens |-> ~T.context.threw /\ ~T.isSelfClosing]
    IN  IF X.mode \in {"DATA", "RCDATA"}
        THEN IF X.mode = "DATA" /\ src[1] = "<"
             THEN IF Len(src) > 1 /\ src[2] = "!"
                  THEN IF startsWith(src, <<"<", "!", "-", "-">>)
                       THEN Made("Comment", parseComment(X))
                       ELSE IF startsWith(src, <<"<", "!", "[", "C", "D", "A", "T",
                                                 "A", "[">>)
                       THEN Made("throw", raise(X))
                       ELSE text
                  ELSE IF Len(src) > 1 /\ src[2] = "/"
                  THEN Made("none", X)
                  ELSE IF testLetter(src, 2)
                  THEN Once(parseTag(X, "start"), Element)
                  ELSE text
             ELSE IF startsWith(src, <<"{", "{">>)
             THEN Made("Interpolation", parseInterpolation(X))
             ELSE text
        ELSE text

\* parse(str) is called
InitDescent(inputs) ==
    /\ descentSource \in inputs
    /\ descentMode = "DATA"
    /\ ancestors = <<>>
    /\ descentNodes = <<>>
    /\ descentIters = 0
    /\ descentStatus = "running"

\* no call of parse
IdleDescent ==
    /\ descentSource = <<>>
    /\ descentMode = "DATA"
    /\ ancestors = <<>>
    /\ descentNodes = <<>>
    /\ descentIters = 0
    /\ descentStatus = "returned"

\* one iteration of the loop of the innermost parseChildren
parseChildrenStep ==
    /\ descentStatus = "running"
    /\ ~isEnd(descentSource, ancestors)
    /\ descentIters < MaxIters
    /\ descentIters' = descentIters + 1
    /\ \E R \in {iteration(DescentContext)} :
           /\ descentSource' = R.context.source
           /\ descentMode' = R.context.mode
           /\ descentStatus' = IF R.context.threw THEN "threw" ELSE "running"
           /\ ancestors' = IF R.opens THEN Append(ancestors, R.tag) ELSE ancestors
           /\ descentNodes' = IF R.kind \in {"none", "throw"} \/ R.context.threw
                              THEN descentNodes
                              ELSE Append(descentNodes, R.kind)
    /\ UNCHANGED <<notCompiler, notDescent>>

\* the loop of the children of an element ends: the rest of parseElement
\* (part_001:89-97), whose element the loop of the parent pushes
parseElementReturn ==
    /\ descentStatus = "running"
    /\ isEnd(descentSource, ancestors)
    /\ ancestors # <<>>
    /\ \E X \in {IF startsWith(descentSource,
                             <<"<", "/">> \o ancestors[Len(ancestors)])
                 THEN parseTag(DescentContext, "end").context
                 ELSE DescentContext} :
           /\ descentSource' = X.source
           /\ descentStatus' = IF X.threw THEN "threw" ELSE "running"
    /\ ancestors' = SubSeq(ancestors, 1, Len(ancestors) - 1)
    /\ UNCHANGED <<notCompiler, notDescent, descentMode, descentNodes, descentIters>>

\* the loop of the children of the root ends: parse returns the root
parseReturn ==
    /\ descentStatus = "running"
    /\ isEnd(descentSource, ancestors)
    /\ ancestors = <<>>
    /\ descentStatus' = "returned"
    /\ UNCHANGED <<notCompiler, notDescent, descentSource, descentMode, ancestors,
                   descentNodes, descentIters>>

NextDescent == parseChildrenStep \/ parseElementReturn \/ parseReturn

----------------------------------------------------------------------------
(* tokenize of part_002:15-95 *)

\* isAlpha (part_002:11-13)
isAlpha(char) == char \in Letters

\* tokenize(str) is called
InitTokenize(inputs) ==
    /\ tokenizeStr \in inputs
    /\ currentState = "initial"
    /\ chars = <<>>
    /\ tokens = <<>>
    /\ tokenizeI = 0
    /\ tokenizeIters = 0
    /\ tokenizeDone = FALSE

\* no call of tokenize
IdleTokenize ==
    /\ tokenizeStr = <<>>
    /\ currentState = "initial"
    /\ chars = <<>>
    /\ tokens = <<>>
    /\ tokenizeI = 0
    /\ tokenizeIters = 0
    /\ tokenizeDone = TRUE

\* the state of the loop of tokenize
Scan == [currentState |-> currentState, chars |-> chars, tokens |-> tokens,
         i |-> tokenizeI]

\* the character is kept and the state becomes st
keep(T, char, st) ==
    [T EXCEPT !.currentState = st, !.chars = Append(@, char), !.i = @ + 1]

\* the token of the collected characters is pushed, the state becomes st
emit(T, type, st) ==
    [T EXCEPT !.currentState = st, !.i = @ + 1, !.chars = <<>>,
              !.tokens = Append(@, [type |-> type, name |-> T.chars])]

\* the switch of tokenize (part_002:22-92) for the character char
tokenizeSwitch(T, char) ==
    CASE T.currentState = "initial" ->
             IF char = "<" THEN [T EXCEPT !.currentState = "tagOpen", !.i = @ + 1]
             ELSE IF isAlpha(char) THEN keep(T, char, "text")
             ELSE T
      [] T.currentState = "tagOpen" ->
             IF isAlpha(char) THEN keep(T, char, "tagName")
             ELSE IF char = "/" THEN [T EXCEPT !.currentState = "tagEnd", !.i = @ + 1]
             ELSE T
      [] T.currentState = "tagName" ->
             IF isAlpha(char) THEN keep(T, char, "tagName")
             ELSE IF char = ">" THEN emit(T, "tag", "initial")
             ELSE T
      [] T.currentState = "text" ->
             IF isAlpha(char) THEN keep(T, char, "text")
             ELSE IF char = "<" THEN emit(T, "text", "tagOpen")
             ELSE T
      [] T.currentState = "tagEnd" ->
             IF isAlpha(char) THEN keep(T, char, "tagEndName")
             ELSE T
      [] T.currentState = "tagEndName" ->
             IF isAlpha(char) THEN keep(T, char, "tagEndName")
             ELSE IF char = ">" THEN emit(T, "tagEnd", "initial")
             ELSE T

\* one iteration of the loop of tokenize
tokenizeStep ==
    /\ ~tokenizeDone
    /\ tokenizeI < Len(tokenizeStr)
    /\ tokenizeIters < MaxIters
    /\ tokenizeIters' = tokenizeIters + 1
    /\ LET T == tokenizeSwitch(Scan, tokenizeStr[tokenizeI + 1])
       IN  /\ currentState' = T.currentState
           /\ chars' = T.chars
           /\ tokens' = T.tokens
           /\ tokenizeI' = T.i
    /\ UNCHANGED <<notCompiler, notTokenize, tokenizeStr, tokenizeDone>>

\* the loop ends: tokenize returns tokens
tokenizeReturn ==
    /\ ~tokenizeDone
    /\ tokenizeI >= Len(tokenizeStr)
    /\ tokenizeDone' = TRUE
    /\ UNCHANGED <<notCompiler, notTokenize, tokenizeStr, currentState, chars,
                   tokens, tokenizeI, tokenizeIters>>

NextTokenize == tokenizeStep \/ tokenizeReturn

IdleCompiler ==
    /\ InitWalk({[n |-> 0, up |-> <<>>, text |-> {}, act |-> <<>>]})
    /\ IdleDescent
    /\ IdleTokenize

\* Part IV at rest
IdleLate ==
    /\ IdleCompiler
    /\ InitWatch({WatchOptions(FALSE, "sync")})
    /\ InitBlock
    /\ InitCollect({[target |-> "object", tracked |-> FALSE, depsMap |-> <<>>,
                     type |-> "set", key |-> "foo", newLength |-> 0]})

----------------------------------------------------------------------------
(* The scheduler as a state machine.  User code, outside a flush or in a  *)
(* callback, calls the scheduler as it likes.  With at most MaxOps queueing *)
(* calls no job runs RECURSION_LIMIT times, so the recursion guard never    *)
(* fires here and the two builds differ only in the bookkeeping of seen:    *)
(* this specification takes the development build, SpecGuard both.          *)

\* Part II at rest, for the specifications of the scheduler
IdleReact == InitReact({"vue"}, {<<"push">>}, {FALSE})

\* Part III at rest
IdleRest ==
    /\ InitProxy
    /\ InitWrite({[k \in StoreKeys |-> "absent"]})
    /\ InitKeepAlive({MaxMax})
    /\ InitParser({Grammar({}, {}, 0)})
    /\ InitCondense({<<>>}, {"condense"}, {0})
    /\ IdleLate

Init == InitScheduler({TRUE}) /\ IdleReact /\ IdleRest

Next ==
    \/ \E job \in Jobs : queueJob(job)
    \/ \E job \in Jobs : invalidateJob(job)
    \/ \E cb \in Jobs : queuePostFlushCb(cb)
    \/ \E cbs \in PostArrays : queuePostFlushCbArray(cbs)
    \/ \E job \in Jobs : deactivate(job)
    \/ flushPostFlushCbs
    \/ postLoopCall
    \/ postCbReturn
    \/ postLoopDone
    \/ \E instance \in {NoInstance} \cup Instances : flushPreFlushCbs(instance)
    \/ preLoopSkip
    \/ preLoopCall
    \/ preCbReturn
    \/ preLoopDone
    \/ flushJobsStart
    \/ loopCall
    \/ loopSkip
    \/ jobReturn
    \/ jobThrow
    \/ flushJobsFinally
    \/ flushJobsAgain
    \/ flushJobsReturn

Spec == Init /\ [][Next]_vars

----------------------------------------------------------------------------
(* The scheduler under callbacks that queue themselves again each time     *)
(* they run: the workload of the recursion guard.  Outside a flush user    *)
(* code queues jobs of GuardJobs (the jobs that may recurse) and calls     *)
(* flushPreFlushCbs; every callback queues itself once and returns.  A     *)
(* callback stops queueing itself after RunCap calls, which bounds the     *)
(* behaviours of the production build.                                     *)

GuardJobs == {1, 3}

RunCap == RECURSION_LIMIT + MaxOps

\* a running callback queues itself: a job or pre-flush callback by queueJob,
\* a post-flush callback by queuePostFlushCb
selfRequeue ==
    /\ Depth > 0 /\ Top.k \in UserKinds
    /\ Top.pc = "run"
    /\ runs[Top.j] < RunCap
    /\ IF Top.k = "postcb" THEN queuePostFlushCbBody(Top.j) ELSE queueJobBody(Top.j)
    /\ stack' = SetTop([Top EXCEPT !.pc = "requeued"])
    /\ UNCHANGED ops

\* the callback has done its work
Finished(k) ==
    /\ Depth > 0 /\ Top.k = k
    /\ IF runs[Top.j] < RunCap THEN Top.pc = "requeued" ELSE TRUE

guardJobReturn  == Finished("job") /\ jobReturn
guardPreReturn  == Finished("pre") /\ preCbReturn
guardPostReturn == Finished("postcb") /\ postCbReturn

InitGuard == InitScheduler(BOOLEAN) /\ IdleReact /\ IdleRest

NextGuard ==
    \/ \E job \in GuardJobs : Depth = 0 /\ queueJob(job)
    \/ \E cb \in GuardJobs : Depth = 0 /\ queuePostFlushCb(cb)
    \/ Depth = 0 /\ flushPreFlushCbs(NoInstance)
    \/ selfRequeue
    \/ guardJobReturn
    \/ guardPreReturn
    \/ guardPostReturn
    \/ postLoopCall
    \/ postLoopCut
    \/ postLoopDone
    \/ preLoopSkip
    \/ preLoopCut
    \/ preLoopCall
    \/ preLoopDone
    \/ flushJobsStart
    \/ loopCall
    \/ loopCut
    \/ flushJobsFinally
    \/ flushJobsAgain
    \/ flushJobsReturn

SpecGuard == InitGuard /\ [][NextGuard]_vars

\* JavaScript runs the code on the stack to completion, and the microtask
\* queue is drained: a step that can be taken is taken
SpecGuardFair == SpecGuard /\ WF_vars(NextGuard)

\* The reactivity kernels under user code: either kernel, every pair of
\* programs, effect 1 with and without allowRecurse; the scheduler stays idle
InitReactive ==
    /\ InitScheduler({TRUE})
    /\ InitReact({"vue", "toy"}, Programs, BOOLEAN)
    /\ IdleRest

NextReact ==
    \/ \E e \in Effects : vueUserRun(e)
    \/ vueUserSet
    \/ vueUserPush
    \/ \E e \in Effects : vueUserStop(e)
    \/ vueRead
    \/ vueSet
    \/ vuePush
    \/ vueMayThrow
    \/ vueRunReturn
    \/ vueDrainCall
    \/ vueDrainDone
    \/ vueUnwind
    \/ \E e \in Effects : toyUserRun(e)
    \/ toyUserSet
    \/ toyUserPush
    \/ toyRead
    \/ toySet
    \/ toyPush
    \/ toyMayThrow
    \/ toyRunReturn
    \/ toyTrigCall
    \/ toyTrigDone
    \/ toyUnwind

SpecReact == InitReactive /\ [][NextReact]_vars

\* The kernel of part_005 under effect functions whose reads differ from run
\* to run and that write to what they read; none of them calls push
TrackPrograms ==
    { <<"x1st", "set1st", "len">>,
      <<"getx", "len", "throw?">>,
      <<"len", "xlater">>,
      <<"get0", "getx", "setx">> }

InitTrack ==
    /\ InitScheduler({TRUE})
    /\ InitReact({"vue"}, TrackPrograms, BOOLEAN)
    /\ IdleRest

NextTrack ==
    \/ \E e \in Effects : vueUserRun(e)
    \/ vueUserSet
    \/ vueUserPush
    \/ \E e \in Effects : vueUserStop(e)
    \/ vueRead
    \/ vueSet
    \/ vueMayThrow
    \/ vueRunReturn
    \/ vueDrainCall
    \/ vueDrainDone
    \/ vueUnwind

SpecTrack == InitTrack /\ [][NextTrack]_vars

\* The kernel of part_005 under user code that calls triggerEffects with
\* either level and brackets its calls with pauseScheduling and
\* resetScheduling
TriggerPrograms ==
    { <<"getx", "setx">>,
      <<"setx", "getx">>,
      <<"getx", "throw?">> }

InitTrigger ==
    /\ InitScheduler({TRUE})
    /\ InitReact({"vue"}, TriggerPrograms, BOOLEAN)
    /\ IdleRest

NextTrigger ==
    \/ \E e \in Effects : vueUserRun(e)
    \/ vueUserSet
    \/ \E level \in {MaybeDirty, Dirty} : vueUserTriggerEffects("x", level)
    \/ vueUserPause
    \/ vueUserReset
    \/ vueRead
    \/ vueSet
    \/ vueMayThrow
    \/ vueRunReturn
    \/ vueDrainCall
    \/ vueDrainDone
    \/ vueUnwind

SpecTrigger == InitTrigger /\ [][NextTrigger]_vars

\* user code that calls reactive() and reads the raw-escape key
SpecProxy == Init /\ [][NextProxy]_vars

\* writes to a reactive object that holds any values to begin with
InitWrites ==
    /\ InitScheduler({TRUE}) /\ IdleReact /\ InitProxy
    /\ InitWrite([StoreKeys -> Values \cup {"absent"}])
    /\ InitKeepAlive({MaxMax})
    /\ InitParser({Grammar({}, {}, 0)})
    /\ InitCondense({<<>>}, {"condense"}, {0})
    /\ IdleLate

SpecWrite == InitWrites /\ [][NextWrite]_vars

\* one KeepAlive with max between 1 and MaxMax
InitKeepAlives ==
    /\ InitScheduler({TRUE}) /\ IdleReact /\ InitProxy
    /\ InitWrite({[k \in StoreKeys |-> "absent"]})
    /\ InitKeepAlive(1..MaxMax)
    /\ InitParser({Grammar({}, {}, 0)})
    /\ InitCondense({<<>>}, {"condense"}, {0})
    /\ IdleLate

SpecKeepAlive == InitKeepAlives /\ [][NextKeepAlive]_vars

\* the state of everything but the parser
IdleButParser ==
    /\ InitScheduler({TRUE}) /\ IdleReact /\ InitProxy
    /\ InitWrite({[k \in StoreKeys |-> "absent"]})
    /\ InitKeepAlive({MaxMax})
    /\ InitCondense({<<>>}, {"condense"}, {0})
    /\ IdleLate

\* templates of any kind
MaxFragments == 3
AnyFragments ==
    {<<"<", "a">>, <<"<", "/", "a">>, <<">">>, <<"/">>, <<" ">>, <<"x">>,
     <<"=">>, <<"\"">>, <<"{", "{">>, <<"}", "}">>, <<"<", "!", "-", "-">>,
     <<"-", "-", ">">>, <<"<", "!", "[", "C", "D", "A", "T", "A", "[">>,
     <<"]", "]", ">">>, <<"<", "?">>, <<"v", "-", "p", "r", "e">>, <<":">>,
     <<".">>, <<"[">>}

InitParseAny ==
    /\ IdleButParser
    /\ InitParser({Grammar(AnyFragments, {defaultParserOptions}, MaxFragments)})

SpecParse == InitParseAny /\ [][NextParser]_vars

\* templates with broken and whole interpolation delimiters, end tag
\* sequences and CDATA sections, parsed in base mode and in HTML mode
MaxEnds == 2
EndFragments ==
    {<<"{">>,
     <<"{", "{", "x", "}">>,
     <<"}", "}">>,
     <<"<", "t", "i", "t", "l", "e", ">">>,
     <<"<", "/", "t", "i", "t">>,
     <<"<", "/", "t", "i", "t", "l", "e", ">">>,
     <<"<", "!", "[", "C", "D", "A", "T", "A", "[">>,
     <<"]", "]", ">">>,
     <<"x">>,
     <<"<", "a", ">">>}

InitParseEnds ==
    /\ IdleButParser
    /\ InitParser({Grammar(EndFragments,
                           {defaultParserOptions,
                            HtmlOptions(defaultParserOptions)},
                           MaxEnds)})

SpecParseEnd == InitParseEnds /\ [][NextParser]_vars

\* a call of baseParse runs to its end: the loop of Tokenizer.parse goes on
\* with the next character and then with cleanup and finish
SpecParseEndFair == SpecParseEnd /\ WF_vars(parse \/ baseParseReturn)

\* templates with script, style, title and textarea, parsed in base mode and
\* in HTML mode
MaxSpecial == 2
SpecialFragments ==
    {<<"<", "s", "c", "r", "i", "p", "t", ">">>,
     <<"<", "S", "t", "y", "l", "e", ">">>,
     <<"<", "t", "i", "t", "l", "e", ">">>,
     <<"<", "t", "e", "x", "t", "a", "r", "e", "a", ">">>,
     <<"<", "s", "c", "r", "i", "p", "t", " ">>,
     <<"<", "b", ">", "{", "{", "x", "}", "}", "<", "/", "s", "c", "r", "i", "p",
       "t", ">">>,
     <<"<", "i", ">", "{", "{", "x", "}", "}", "<", "/", "T", "I", "T", "L", "E",
       ">">>,
     <<"<", "/", "b", ">">>}

InitParseSpecial ==
    /\ IdleButParser
    /\ InitParser({Grammar(SpecialFragments,
                           {defaultParserOptions,
                            HtmlOptions(defaultParserOptions)},
                           MaxSpecial)})

SpecParseSpecial == InitParseSpecial /\ [][NextParser]_vars

\* templates that end inside a v-pre element, a pre element or an open tag,
\* and templates with an interpolation and a directive, parsed one after the
\* other
MaxLeak == 3
LeakFragments ==
    {<<"<", "a", " ", "v", "-", "p", "r", "e", "=", "y">>,
     <<"<", "a", " ", "v", "-", "p", "r", "e", ">">>,
     <<"<", "p", "r", "e", ">">>,
     <<"<", "a", " ">>,
     <<"{", "{", "x", "}", "}">>,
     <<"<", "a", " ", "v", "-", "b", ":", "x", ">">>,
     <<"<", "/", "a", ">">>}

InitParseLeak ==
    /\ IdleButParser
    /\ InitParser({Grammar(LeakFragments,
                           {ParserOptions("condense", {}, {<<"p", "r", "e">>})},
                           MaxLeak)})

SpecParseLeak == InitParseLeak /\ [][NextParser]_vars

\* templates of open and close tags, with and without br as a void tag
MaxTags == 4
TagFragments ==
    {<<"<", "a", ">">>, <<"<", "B", ">">>, <<"<", "b", "r", ">">>,
     <<"<", "/", "A", ">">>, <<"<", "/", "b", " ", ">">>,
     <<"<", "/", "b", "r", ">">>}

InitParseTags ==
    /\ IdleButParser
    /\ InitParser({Grammar(TagFragments,
                           {defaultParserOptions,
                            ParserOptions("condense", {<<"b", "r">>}, {})},
                           MaxTags)})

SpecParseTags == InitParseTags /\ [][NextParser]_vars

\* children of an element or of the root: at most MaxNodes texts, elements
\* and comments, with no text next to a text, since onText appends to a text
\* that comes last (part_007:627-650)
MaxNodes == 3
Texts ==
    {<<" ">>, <<"\n", " ">>, <<"x", " ", " ">>, <<"\r", "\n", "x">>}
NodeChoices ==
    {Node("TEXT", t, 0) : t \in Texts}
        \cup {Node("ELEMENT", <<>>, 1), Node("COMMENT", <<"c">>, 0)}
NodeLists ==
    {l \in UNION {[1..n -> NodeChoices] : n \in 0..MaxNodes} :
        \A i \in 1..(Len(l) - 1) : l[i].type # "TEXT" \/ l[i + 1].type # "TEXT"}

InitCondenseAny ==
    /\ InitScheduler({TRUE}) /\ IdleReact /\ InitProxy
    /\ InitWrite({[k \in StoreKeys |-> "absent"]})
    /\ InitKeepAlive({MaxMax})
    /\ InitParser({Grammar({}, {}, 0)})
    /\ InitCondense(NodeLists, {"condense", "preserve"}, {0, 1})
    /\ IdleLate

SpecCondense == InitCondenseAny /\ [][condenseWhitespaceCall]_vars

\* everything of Parts I to III at rest
IdleEarly ==
    /\ InitScheduler({TRUE}) /\ IdleReact /\ InitProxy
    /\ InitWrite({[k \in StoreKeys |-> "absent"]})
    /\ InitKeepAlive({MaxMax})
    /\ InitParser({Grammar({}, {}, 0)})
    /\ InitCondense({<<>>}, {"condense"}, {0})

\* a watcher with any options
InitWatchers ==
    /\ IdleEarly
    /\ IdleCompiler
    /\ InitWatch({WatchOptions(i, f) : i \in BOOLEAN, f \in {"sync", "post"}})
    /\ InitBlock
    /\ InitCollect({[target |-> "object", tracked |-> FALSE, depsMap |-> <<>>,
                     type |-> "set", key |-> "foo", newLength |-> 0]})

SpecWatch == InitWatchers /\ [][NextWatch]_vars

\* render functions that open and close blocks and create vnodes
InitBlocks == IdleEarly /\ IdleLate

\* every call of trigger the handlers make
InitCollects ==
    /\ IdleEarly
    /\ IdleCompiler
    /\ InitWatch({WatchOptions(FALSE, "sync")})
    /\ InitBlock
    /\ InitCollect({c \in TriggerCalls : RealCall(c)})

SpecCollect == InitCollects /\ [][NextCollect]_vars

SpecBlock == InitBlocks /\ [][NextBlock]_vars

\* transform over every small tree
InitWalks ==
    /\ IdleEarly
    /\ InitWalk(Trees)
    /\ IdleDescent /\ IdleTokenize
    /\ InitWatch({WatchOptions(FALSE, "sync")})
    /\ InitBlock
    /\ InitCollect({[target |-> "object", tracked |-> FALSE, depsMap |-> <<>>,
                     type |-> "set", key |-> "foo", newLength |-> 0]})

SpecWalk == InitWalks /\ [][transformCall]_vars

\* everything but the small compiler at rest
IdleButCompiler ==
    /\ IdleEarly
    /\ InitWatch({WatchOptions(FALSE, "sync")})
    /\ InitBlock
    /\ InitCollect({[target |-> "object", tracked |-> FALSE, depsMap |-> <<>>,
                     type |-> "set", key |-> "foo", newLength |-> 0]})

\* the strings made of at most limit of the pieces
StringsOf(pieces, limit) ==
    {Flatten(ps) : ps \in UNION {[1..n -> pieces] : n \in 0..limit}}

\* parse(str) of part_001 for every template of at most MaxPieces pieces
MaxPieces == 3
DescentPieces ==
    {<<"<", "a">>,
     <<">">>,
     <<"<", "/", "a", ">">>,
     <<"<", "/", "b", ">">>,
     <<"{", "{">>,
     <<"}", "}">>,
     <<" ">>,
     <<"x">>,
     <<"<", "!", "-", "-">>,
     <<"-", "-", ">">>,
     <<"/", ">">>,
     <<"<", "t", "i", "t", "l", "e", ">">>,
     <<"=", "y">>,
     <<"<">>}

InitDescents ==
    /\ IdleButCompiler
    /\ InitWalk({[n |-> 0, up |-> <<>>, text |-> {}, act |-> <<>>]})
    /\ InitDescent(StringsOf(DescentPieces, MaxPieces))
    /\ IdleTokenize

SpecDescent == InitDescents /\ [][NextDescent]_vars

\* the call runs to its end: JavaScript goes on with the next iteration
SpecDescentFair == SpecDescent /\ WF_vars(NextDescent)

\* tokenize(str) of part_002 for every string of at most MaxChars characters
MaxChars == 4
TokenizeChars == {<<"<">>, <<"/">>, <<">">>, <<"a">>, <<"B">>, <<" ">>}

InitTokenizes ==
    /\ IdleButCompiler
    /\ InitWalk({[n |-> 0, up |-> <<>>, text |-> {}, act |-> <<>>]})
    /\ IdleDescent
    /\ InitTokenize(StringsOf(TokenizeChars, MaxChars))

SpecTokenize == InitTokenizes /\ [][NextTokenize]_vars

SpecTokenizeFair == SpecTokenize /\ WF_vars(NextTokenize)

\* templates of one open tag with attributes and directives
MaxAttrs == 5
AttrFragments ==
    {<<"<", "a">>, <<" ", "x">>, <<" ", "v", "-", "p", "r", "e">>,
     <<" ", "v", "-", "b", ":", "x">>, <<"=", "y">>, <<">">>}

InitParseAttrs ==
    /\ IdleButParser
    /\ InitParser({Grammar(AttrFragments, {defaultParserOptions}, MaxAttrs)})

SpecParseAttrs == InitParseAttrs /\ [][NextParser]_vars

----------------------------------------------------------------------------
(* Properties of the scheduler *)

\* C1: a job queued several times before it has started is held once in the
\* queue (and so executed once), wherever the calls of queueJob are made
C1_HeldOnce ==
    \A p, q \in Unstarted : p # q => queue[p] # queue[q]

\* a step in which a function of kind k is entered with a callback
Starts(k) == Depth' = Depth + 1 /\ stack'[Depth'].k = k

\* no queue entry that has not started has a smaller id than job j, and if j
\* has no id none of them has one
NoneSmaller(q, from, j) ==
    \A p \in 1..Len(q) : p > from => IdDiff(q[p], j) >= 0

\* C2 as stated: whenever a queue job starts within a flush, from the loop of
\* flushJobs or from flushPreFlushCbs, no queued job that has not started has a smaller id
C2_AscendingIds ==
    [][(Flushing /\ (Starts("job") \/ Starts("pre")))
         => NoneSmaller(queue', FirstUnstarted', stack'[Depth'].j)]_vars

\* C2 amended: the jobs the loop of flushJobs starts run in ascending id
\* order, jobs without id last (flushPreFlushCbs may run a pre job earlier)
C2_LoopAscendingIds ==
    [][Starts("job") => NoneSmaller(queue', FirstUnstarted', stack'[Depth'].j)]_vars

\* the parent's job is running while the child's job and a job without id,
\* queued before it, wait their turn
C2_Witness ==
    /\ Depth > 0
    /\ IF Depth > 0 THEN Top.k = "job" /\ Top.j = 1 ELSE FALSE
    /\ ops = MaxOps
    /\ \E p, q \in Unstarted : p < q /\ queue[p] = 2 /\ queue[q] = 4

\* the post-flush callbacks waiting in the pending or in the active list
PostRunning == \E d \in 1..Depth : stack[d].k = "postcb"

OwedPostCbs ==
    {pendingPostFlushCbs[p] : p \in 1..Len(pendingPostFlushCbs)}
    \cup {activePostFlushCbs.items[p] :
            p \in {r \in 1..Len(activePostFlushCbs.items) :
                     r > postFlushIndex + (IF PostRunning THEN 1 ELSE 0)}}

\* the scheduler at rest
Idle ==
    /\ ~isFlushing /\ ~isFlushPending /\ flushMicrotasks = 0
    /\ queue = <<>> /\ pendingPostFlushCbs = <<>> /\ activePostFlushCbs.isNull

\* a job leaves the main queue without being called: invalidateJob took it
\* out, or the loop passed over it as inactive or cut off by the guard
Invalidated(j) == stack' = stack /\ queue' = invalidateJobResult(j)
PassedOver(j) ==
    /\ InLoop /\ flushIndex' = flushIndex + 1 /\ stack' = stack
    /\ IF ~jobActive[j] THEN TRUE ELSE DEV /\ checkRecursiveUpdates(seen, j).cut

RunsBounded == Flushing => \A j \in Jobs : runs[j] <= RECURSION_LIMIT + 1

C7_Removed == \A j \in invalidated : j \notin OwedJobs

----------------------------------------------------------------------------
(* Properties of the reactivity kernels *)

\* effect e is executing its function, in some frame of the call stack
Running(e) == \E i \in 1..CDepth : calls[i].k \in {"run", "toyrun"} /\ calls[i].e = e
Quiet == \A e \in Effects : ~Running(e)

\* C3: whenever no effect is in the middle of a run, an effect is in the
\* subscriber map of a dep if and only if the track id the dep records for it
\* equals the effect's current track id: no dep keeps an effect under a stale
\* id.
C3_NoStaleTrackId ==
    (impl = "vue" /\ Quiet) =>
        \A e \in Effects, k \in Keys :
            DepHas(targetMap.dep[k], e) <=>
                targetMap.dep[k].id[e] = effect[e].trackId

\* an effect that read x in its first run only has run again and is now held
\* by the dep of length alone
C3_Witness ==
    /\ impl = "vue" /\ Quiet
    /\ \E e \in Effects :
          /\ fnOf[e] = <<"len", "x1st">>
          /\ runCount[e] >= 2
          /\ DepHas(targetMap.dep["length"], e)
          /\ ~DepHas(targetMap.dep["x"], e)

AllPush == \A e \in Effects : fnOf[e] = <<"push">>
Holds(k, e) == DepHas(targetMap.dep[k], e) \/ (\E i \in 1..Len(bucket[k]) : bucket[k][i] = e)

\* C8: an effect whose function only calls push on the reactive array is
\* recorded in no dep and is entered only by the user's own call, never by a
\* trigger, by its own push or by the push of another such effect; when every
\* effect is of that kind no call nests deeper than one run and the loop that
\* follows its push.
C8_PushRunsOnce ==
    /\ [](\A e \in Effects, k \in Keys : fnOf[e] = <<"push">> => ~Holds(k, e))
    /\ [][\A e \in Effects :
             (fnOf[e] = <<"push">> /\ runCount'[e] > runCount[e]) => calls = <<>>]_vars
    /\ [](AllPush => CDepth <= 2)

\* two effects that push have run once each, the user has pushed as well,
\* and everything has returned
C8_Witness ==
    /\ AllPush
    /\ \A e \in Effects : runCount[e] = 1
    /\ arrLen = 3
    /\ calls = <<>>

InQueue(q, e) == \E i \in 1..Len(q) : q[i] = e

\* C9: while an effect without allowRecurse is running, a write it makes to
\* one of its own dependencies does not put its scheduler into
\* queueEffectSchedulers, and the effect is not entered again before its run
\* has ended; in the hand-written kernel trigger does not call the effect
\* that is the active one.
C9_SelfWriteSuppressed ==
    /\ [][(impl = "vue" /\ AtOp("run", {"setx"}))
            => LET e == CTop.e
               IN  (CTop.live /\ ~effect[e].allowRecurse
                      /\ ~InQueue(queueEffectSchedulers, e))
                   => ~InQueue(queueEffectSchedulers', e)]_vars
    /\ [][\A e \in Effects :
            (impl = "vue" /\ ~effect[e].allowRecurse /\ runCount'[e] > runCount[e])
                => ~Running(e)]_vars
    /\ [][\A e \in Effects :
            (impl = "toy" /\ calls # <<>> /\ runCount'[e] > runCount[e])
                => e # toyActiveEffect]_vars

\* C10: every operation leaves the active-effect pointer, the should-track
\* flag and the schedule-pause depth as it found them, also when it throws:
\* whenever all calls have returned or have been left by an exception, the
\* three have the values they had before the first call.
C10_Restored ==
    calls = <<>> =>
        /\ impl = "vue" => /\ activeEffect = NoEffect
                           /\ shouldTrack
                           /\ pauseScheduleStack = 0
                           /\ trackStack = <<>>
        /\ impl = "toy" => /\ toyActiveEffect = NoEffect
                           /\ toyShouldTrack
                           /\ effectStack = <<>>

\* the loop of resetScheduling has emptied queueEffectSchedulers and every
\* call has returned
FlushDone == impl = "vue" /\ calls = <<>> /\ queueEffectSchedulers = <<>>

\* C11 as stated: after a flush has completed, no effect whose scheduler was
\* enqueued has dirty level Dirty.
C11_NoneDirty ==
    FlushDone => \A e \in scheduled : effect[e].dirtyLevel # Dirty

\* C11: after a flush has completed, an effect whose scheduler was enqueued
\* has dirty level Dirty only if it was made dirty again after its scheduler
\* was last enqueued (_shouldSchedule is still set); and an effect is made
\* dirty without its scheduler being enqueued only while it is running.
C11_DirtyOnlyWhileRunning ==
    /\ [](FlushDone => \A e \in scheduled :
              effect[e].dirtyLevel = Dirty => effect[e].shouldSchedule)
    /\ [][impl = "vue" =>
            \A e \in Effects :
              (/\ effect[e].dirtyLevel # Dirty
               /\ effect'[e].dirtyLevel = Dirty
               /\ ~InQueue(queueEffectSchedulers', e))
                  => effect[e].runnings > 0]_vars

\* a flush has re-run an effect it had enqueued and left it clean
C11_Witness ==
    /\ FlushDone
    /\ \E e \in scheduled : effect[e].dirtyLevel = NotDirty /\ runCount[e] >= 2

----------------------------------------------------------------------------
(* Properties of reactive() *)

\* C12: reactive(x) returns the same proxy on every call, reactive of a
\* proxy is that proxy (no proxy has a proxy as its target), and the
\* raw-escape key of reactive(x) returns x.
C12_ProxyIdentity ==
    /\ \A o \in KnownObjects : Cardinality(MapGet(o)) <= 1
    /\ ret.op = "reactive" => MapGet(ret.arg) = {ret.res}
    /\ \A pr \in reactiveMap : rawOf(pr[2]) = pr[1]
    /\ (ret.op = "reactive" /\ IsProxy(ret.arg)) => ret.res = ret.arg
    /\ \A n \in 1..Len(proxies) : ~IsProxy(proxies[n])

----------------------------------------------------------------------------
(* Properties of the set trap *)

\* C13: a write of an existing property calls trigger if and only if the new
\* value differs from the old one, NaN counted as equal to NaN.
C13_TriggersIffChanged ==
    written.type = "SET" =>
        (written.triggered <=> written.oldVal # written.newVal)

----------------------------------------------------------------------------
(* Properties of KeepAlive *)

\* the component of the set ks that was rendered longest ago
LeastRecent(order, ks) ==
    order[CHOOSE i \in 1..Len(order) :
            /\ order[i] \in ks
            /\ \A j \in 1..(i - 1) : order[j] \notin ks]

\* C14: rendering a cached key makes it the last of the key set, and the key
\* a render prunes is the least recently rendered of the cached keys.
C14_EvictsLeastRecent ==
    [][renders' = renders + 1 =>
         LET child == IF recency' = <<>> THEN "text" ELSE recency'[Len(recency')]
         IN  /\ (pendingCacheKey' # "null" /\ child \in cache)
                    => keys'[Len(keys')] = child
             /\ evicted' # "none"
                    => evicted' = LeastRecent(recency, cache \ {child})]_vars

\* C15: the key set and the cache never hold more than max entries.
C15_AtMostMax ==
    /\ Len(keys) <= max
    /\ Cardinality(cache) <= max

----------------------------------------------------------------------------
(* C16: parsing never throws: with an error callback that returns, the      *)
(* tokenizer and the parser driving it report malformed input through the   *)
(* error callback only, and no callback of a parse ends in an exception.    *)
C16_NeverThrows == ~parseThrew

\* the tokenizer is about to call onclosetag: the name of a close tag ends
CloseTagEnds ==
    /\ parsing /\ index < Len(buffer) /\ state = "InClosingTagName"
    /\ (charCodeAt(index) = ">" \/ isWhitespace(charCodeAt(index)))

\* the entries of the stack whose tag is name, whatever the case
MatchesOf(name) ==
    {i \in 1..Len(parserStack) :
        toLowerCase(elements[parserStack[i]].tag) = toLowerCase(name)}

\* the i innermost entries of the stack are popped: the i-th is closed, the
\* ones inside it are closed as implied, and no other element is ended
PoppedThrough(i) ==
    /\ parserStack' = SubSeq(parserStack, i + 1, Len(parserStack))
    /\ Len(elements') = Len(elements)
    /\ \A e \in 1..Len(elements) :
           elements'[e].end =
               IF \E j \in 1..(i - 1) : parserStack[j] = e THEN "implied"
               ELSE IF parserStack[i] = e THEN "closed"
               ELSE elements[e].end

NothingPopped ==
    /\ parserStack' = parserStack
    /\ Len(elements') = Len(elements)
    /\ \A e \in 1..Len(elements) : elements'[e].end = elements[e].end

\* what the claim says of a close tag of the given name
CloseTagMatched(name) ==
    IF MatchesOf(name) = {}
    THEN NothingPopped /\ errors' = Append(errors, "X_INVALID_END_TAG")
    ELSE \E i \in MatchesOf(name) :
             /\ \A o \in MatchesOf(name) : i <= o
             /\ PoppedThrough(i)
             /\ errors' = IF i > 1 THEN Append(errors, "X_MISSING_END_TAG")
                          ELSE errors

\* C17 as stated: a close tag is matched case-insensitively against the
\* stack from the innermost element outward; the match and the elements
\* opened inside it are closed and popped, with an error when some are
\* closed implicitly; when nothing matches an invalid-end-tag error is
\* reported and the stack is unchanged
C17_AnyCloseTag ==
    [][CloseTagEnds => CloseTagMatched(getSlice(sectionStart, index))]_vars

\* C17 amended: the same for a close tag whose name is not a void tag, with
\* one X_MISSING_END_TAG whatever the number of implicitly closed elements;
\* the close tag of a void tag is ignored, without an error
C17_CloseTagMatching ==
    [][CloseTagEnds =>
         IF getSlice(sectionStart, index) \in currentOptions.isVoidTag
         THEN NothingPopped /\ errors' = errors
         ELSE CloseTagMatched(getSlice(sectionStart, index))]_vars

\* <a><B></A> has popped B as implied and a as closed, with one error, and
\* the parse is still under way
C17_Witness ==
    /\ parsing /\ Len(elements) = 2 /\ parserStack = <<>>
    /\ elements[1].end = "closed" /\ elements[2].end = "implied"
    /\ errors = <<"X_MISSING_END_TAG">>

\* C18: in the tree the parser builds, the attribute names within one
\* element are unique: no element's props hold two attributes of one name
C18_UniqueNames ==
    \A e \in 1..Len(elements) :
        \A i, j \in 1..Len(elements[e].props) :
            (/\ i # j
             /\ elements[e].props[i].type = "ATTRIBUTE"
             /\ elements[e].props[j].type = "ATTRIBUTE")
                => elements[e].props[i].name # elements[e].props[j].name

\* the element that carries v-pre is being opened or is open
InVPreElement ==
    /\ currentVPreBoundary > 0
    /\ \/ currentVPreBoundary = currentOpenTag
       \/ \E i \in 1..Len(parserStack) : parserStack[i] = currentVPreBoundary

\* C19: literal mode is on exactly for the extent of the element that carries
\* v-pre, from its v-pre until it closes, in the parser and the tokenizer
\* alike
C19_LiteralExtent ==
    /\ tokenizerInVPre = inVPre
    /\ inVPre <=> InVPreElement

\* a text made of whitespace only
WhitespaceOnly(node) == node.type = "TEXT" /\ isAllWhitespace(node.content)

PreservedOutsidePre(nodes) ==
    LET kept(n) == n.type # "null"
    IN  SelectSeq([i \in 1..Len(nodes) |->
                      IF ~WhitespaceOnly(nodes[i]) THEN nodes[i]
                      ELSE IF i = 1 \/ i = Len(nodes) THEN Node("null", <<>>, 0)
                      ELSE [nodes[i] EXCEPT !.content = <<" ">>]],
                  kept)

\* what is kept inside pre: every node, a text with its Windows newlines as
\* newlines and, when it is the first child of the pre tag, without its
\* leading newline
KeptInsidePre(nodes, tagIsPre) ==
    [i \in 1..Len(nodes) |->
        IF nodes[i].type # "TEXT" THEN nodes[i]
        ELSE IF i = 1 /\ tagIsPre
        THEN [nodes[i] EXCEPT
                 !.content = removeLeadingNewline(replaceWindowsNewlines(@))]
        ELSE [nodes[i] EXCEPT !.content = replaceWindowsNewlines(@)]]

C21_CleanupOnce ==
    \A c \in 1..Len(registeredIn) :
        /\ cleanupRuns[c] <= 1
        /\ cbCalls > registeredIn[c] => cleanupRuns[c] = 1

\* C22: the list of dynamic children of a block holds only vnodes created
\* with a patch flag (static vnodes are not captured), and after a block has
\* closed the vnodes are collected into the list of the enclosing block: the
\* current list is the one on top of the stack
C22_OnlyDynamicChildren ==
    /\ \A a \in 1..Len(arrays) : \A i \in 1..Len(arrays[a]) :
           vnodes[arrays[a][i]].patchFlags # Undefined
    /\ dynamicChildStack # <<>> =>
           currentDynamicChildren = dynamicChildStack[Len(dynamicChildStack)]

\* no queue entry that has not started is a pre job with the id of the job
\* j, unless j is a pre job itself
NoPreWaits(q, from, j) ==
    \A p \in 1..Len(q) :
        p > from => ~(/\ DiffIsZero(q[p], j)
                      /\ SchedulerJob[q[p]].pre
                      /\ ~SchedulerJob[j].pre)

\* C23: of two queued jobs with the same id that have not started, the pre
\* job executes before the other: whenever a job that is not a pre job
\* starts, no pre job with its id waits in the queue
C23_PreBeforeUpdate ==
    [][(Starts("job") \/ Starts("pre"))
         => NoPreWaits(queue', FirstUnstarted', stack'[Depth'].j)]_vars

\* the pre-flush watcher of the child is running and the update job of the
\* child, queued before it, waits
C23_Witness ==
    /\ Depth > 0
    /\ IF Depth > 0 THEN Top.k = "job" /\ Top.j = 3 ELSE FALSE
    /\ \E p \in Unstarted : queue[p] = 2

\* the callbacks of a list are distinct and in ascending id order
AscendingDistinct(items) ==
    \A p, r \in 1..Len(items) :
        p < r => items[p] # items[r] /\ IdDiff(items[p], items[r]) <= 0

SetOf(items) == {items[p] : p \in 1..Len(items)}

PassOpens == activePostFlushCbs.isNull /\ ~activePostFlushCbs'.isNull
PassRuns  == ~activePostFlushCbs.isNull /\ ~activePostFlushCbs'.isNull

\* a pass copies the pending callbacks, each once and in ascending id order,
\* into the active list and empties the pending list
PassCopiesPending ==
    PassOpens => /\ AscendingDistinct(activePostFlushCbs'.items)
                 /\ SetOf(activePostFlushCbs'.items) = SetOf(pendingPostFlushCbs)
                 /\ pendingPostFlushCbs' = <<>>
                 /\ postFlushIndex' = 0

\* the pass calls the entry of the active list at postFlushIndex and moves
\* on by one entry when the callback returns or is passed over
PassInListOrder ==
    /\ Starts("postcb") =>
           /\ postFlushIndex < Len(activePostFlushCbs.items)
           /\ stack'[Depth'].j = At(activePostFlushCbs.items, postFlushIndex)
    /\ (PassRuns /\ postFlushIndex' # postFlushIndex) =>
           postFlushIndex' = postFlushIndex + 1

\* C24 as stated: post-flush callbacks start only when no entry of the main
\* queue waits; a pass copies the pending callbacks into the active list and
\* runs each distinct callback once in ascending id order; while the pass
\* runs, the list being run does not grow
C24_PostPassAsStated ==
    [][/\ Starts("postcb") => Unstarted' = {}
       /\ PassCopiesPending
       /\ PassInListOrder
       /\ PassRuns => activePostFlushCbs'.items = activePostFlushCbs.items]_vars

\* C24, amended: the pass that flushJobs makes opens with the main queue
\* emptied and its loop over; every pass copies the pending callbacks, each
\* once and in ascending id order, and calls them in list order;
\* queuePostFlushCb never adds to the list being run, which grows only by a
\* call of flushPostFlushCbs made while the pass runs: that call appends the
\* pending callbacks, deduplicated and sorted, to the end of the list
C24_PostPass ==
    [][/\ (PassOpens /\ Flushing /\ stack'[Depth'].pc = "shared") =>
              queue' = <<>> /\ flushIndex' = 0 /\ stack'[1].pc = "post"
       /\ (Starts("postcb") /\ stack[Depth].pc = "shared") =>
              stack[1].pc = "post"
       /\ PassCopiesPending
       /\ PassInListOrder
       /\ PassRuns =>
              \/ activePostFlushCbs'.items = activePostFlushCbs.items
              \/ /\ pendingPostFlushCbs # <<>> /\ pendingPostFlushCbs' = <<>>
                 /\ activePostFlushCbs'.items =
                        activePostFlushCbs.items \o deduped
                 /\ AscendingDistinct(deduped)
                 /\ UNCHANGED <<postFlushIndex, stack>>]_vars

\* the second callback of a pass of two runs while a callback queued during
\* the pass waits in the pending list
C24_Witness ==
    /\ PostRunning
    /\ Len(activePostFlushCbs.items) >= 2
    /\ postFlushIndex >= 1
    /\ pendingPostFlushCbs # <<>>
    /\ IdDiff(activePostFlushCbs.items[1], activePostFlushCbs.items[2]) < 0

\* the keys the effect function of frame f has read so far in its run
ReadsOf(f) ==
    {ReadKey(fnOf[f.e][i], f.n) : i \in 1..(f.pc - 1)} \ {"none"}

\* the top frame, a run of an effect, is left: fn returned or threw
RunEnds ==
    /\ impl = "vue" /\ CDepth > 0
    /\ IF CDepth > 0 THEN CTop.k = "run" ELSE FALSE
    /\ calls' = CPop

\* after the step, effect e is subscribed to exactly the deps of reads, its
\* dep list holds them and nothing beyond the cursor
SubscribedTo(e, reads) ==
    /\ \A k \in Keys : DepHas(targetMap'.dep[k], e) <=> k \in reads
    /\ Len(effect'[e].deps) = effect'[e].depsLength
    /\ SetOf(effect'[e].deps) = reads

\* a dep is in the depsMap of its target exactly while it has a subscriber
EmptyDepsRemoved ==
    \A k \in Keys : k \in targetMap.has <=> targetMap.dep[k].keys # <<>>

TriggersX(level) ==
    \/ vueUserTriggerEffects("x", level)
    \/ level = Dirty /\ (vueUserSet \/ vueSet)

\* how often the scheduler of e is in the queue
Queued(q, e) == Cardinality({p \in 1..Len(q) : q[p] = e})

\* the dep of x records the current track id of e, and e is below the level
Eligible(e, level) ==
    /\ effect[e].dirtyLevel < level
    /\ targetMap.dep["x"].id[e] = effect[e].trackId

\* C26 as stated: on a trigger every subscribed effect with a current track
\* id and a dirty level below the triggering level gets the triggering level
\* and its trigger callback is called; every other subscribed effect is left
\* untouched
C26_TriggerMarksAsStated ==
    [][\A level \in {MaybeDirty, Dirty} : TriggersX(level) =>
         \A e \in Effects : DepHas(targetMap.dep["x"], e) =>
             IF Eligible(e, level)
             THEN /\ effect'[e].dirtyLevel = level
                  /\ e \in triggerCalls'
             ELSE /\ effect'[e] = effect[e]
                  /\ e \notin triggerCalls'
                  /\ Queued(queueEffectSchedulers', e)
                         = Queued(queueEffectSchedulers, e)]_vars

\* C26, amended: on a trigger every subscribed effect with a current track id
\* and a dirty level below the triggering level gets the triggering level,
\* and its trigger callback is called exactly when its level was NotDirty; an
\* effect with a stale track id is left untouched; an effect with a current
\* id and a level at or above the triggering level keeps its level and its
\* trigger callback is not called, and nothing but _shouldSchedule changes
\* in it (scheduleEffects enqueues its scheduler if the flag was still set)
C26_TriggerMarks ==
    [][\A level \in {MaybeDirty, Dirty} : TriggersX(level) =>
         \A e \in Effects : DepHas(targetMap.dep["x"], e) =>
             IF Eligible(e, level)
             THEN /\ effect'[e].dirtyLevel = level
                  /\ e \in triggerCalls' <=> effect[e].dirtyLevel = NotDirty
             ELSE /\ e \notin triggerCalls'
                  /\ effect'[e] = [effect[e] EXCEPT
                                     !.shouldSchedule = effect'[e].shouldSchedule]
                  /\ targetMap.dep["x"].id[e] # effect[e].trackId =>
                        /\ effect'[e] = effect[e]
                        /\ Queued(queueEffectSchedulers', e)
                               = Queued(queueEffectSchedulers, e)]_vars

\* a call of triggerEffects with the level MaybeDirty has raised a subscribed
\* effect to it, called its trigger callback and enqueued its scheduler
C26_Witness ==
    \E e \in Effects :
        /\ DepHas(targetMap.dep["x"], e)
        /\ effect[e].dirtyLevel = MaybeDirty
        /\ triggerCalls = {e}
        /\ Queued(queueEffectSchedulers, e) = 1

IsPrefix(a, b) == Len(a) <= Len(b) /\ SubSeq(b, 1, Len(a)) = a

\* the step is a call of trigger or of triggerEffects
Triggers ==
    \/ vueUserSet \/ vueSet
    \/ \E level \in {MaybeDirty, Dirty} : vueUserTriggerEffects("x", level)

Among(c, named) == SetOfSeq(c.depsMap) \cap named

\* what C28 lists for a call, with the length dep for every ADD to a sequence
ListedAsStated(c) ==
    CASE c.type = "clear" -> SetOfSeq(c.depsMap)
      [] c.type = "add" ->
            Among(c, {c.key}) \cup
            (IF isArray(c.target) THEN Among(c, {"length"})
             ELSE Among(c, {ITERATE_KEY}) \cup
                  (IF isMap(c.target) THEN Among(c, {MAP_KEY_ITERATE_KEY}) ELSE {}))
      [] c.type = "delete" ->
            Among(c, {c.key, ITERATE_KEY}) \cup
            (IF isMap(c.target) THEN Among(c, {MAP_KEY_ITERATE_KEY}) ELSE {})
      [] c.type = "set" ->
            Among(c, {c.key}) \cup
            (IF isMap(c.target) THEN Among(c, {ITERATE_KEY}) ELSE {})

\* the same with the length dep for the ADD of an integer key only
Listed(c) ==
    IF c.type = "add" /\ isArray(c.target) /\ ~isIntegerKey(c.key)
    THEN Among(c, {c.key})
    ELSE ListedAsStated(c)

\* the call is a write to the length of a sequence
SetsLength(c) == c.key = "length" /\ isArray(c.target)

\* C28 as stated: besides the dep of the written key trigger collects, for
\* ADD, the length dep when the target is a sequence and the ITERATE dep
\* when it is a map or object (plus MAP_KEY_ITERATE for a map); for DELETE
\* the ITERATE dep (plus MAP_KEY_ITERATE for a map); for SET on a map the
\* ITERATE dep; for CLEAR every dep of the target
C28_CollectedDepsAsStated ==
    (collectDone /\ triggerCall.tracked /\ ~SetsLength(triggerCall)) =>
        TriggeredDeps = ListedAsStated(triggerCall)

\* C28, amended: as stated, except that the ADD of a key to a sequence
\* collects the length dep only when the key is an integer key
C28_CollectedDeps ==
    (collectDone /\ triggerCall.tracked /\ ~SetsLength(triggerCall)) =>
        TriggeredDeps = Listed(triggerCall)

\* the ADD of a key to a Map whose keys, entries and key iteration are all
\* tracked has collected the three deps
C28_Witness ==
    /\ collectDone
    /\ triggerCall.type = "add" /\ triggerCall.target = "map"
    /\ triggerCall.key = "foo"
    /\ collectedDeps = <<"foo", ITERATE_KEY, MAP_KEY_ITERATE_KEY>>

\* C29: setting the length of a reactive sequence to n triggers the length
\* dep and the dep of every integer key greater than or equal to n, and no
\* dep of a smaller index
C29_LengthDeps ==
    (collectDone /\ triggerCall.tracked /\ SetsLength(triggerCall)) =>
        /\ Among(triggerCall, {"length"}) \subseteq TriggeredDeps
        /\ \A i \in Among(triggerCall, IndexKeys) :
               i \in TriggeredDeps <=> ToNumber(i) >= triggerCall.newLength

\* the length of a sequence whose length and indices 0, 1 and 2 are tracked
\* has been set to 1
C29_Witness ==
    /\ collectDone
    /\ SetsLength(triggerCall) /\ triggerCall.newLength = 1
    /\ triggerCall.depsMap = <<"length", "0", "1", "2", "foo">>
    /\ collectedDeps = <<"length", "1", "2">>

----------------------------------------------------------------------------
(* C30: the content of script, style, title and textarea                    *)

\* the element whose content the tokenizer reads: the innermost open one
Innermost ==
    IF parserStack = <<>> THEN <<>> ELSE toLowerCase(elements[parserStack[1]].tag)

RawTextTags == {<<"s", "c", "r", "i", "p", "t">>, <<"s", "t", "y", "l", "e">>}
RCDataTags ==
    {<<"t", "i", "t", "l", "e">>, <<"t", "e", "x", "t", "a", "r", "e", "a">>}

\* the callbacks of the next step are those of allowed or the end tag of
\* the innermost element
OnlyCalls(allowed) ==
    \A i \in 1..Len(called') :
        \/ called'[i].cb \in allowed \cup {"onend"}
        \/ called'[i].cb = "onclosetag" /\ toLowerCase(called'[i].text) = Innermost

\* C30: in HTML mode, while a script or style element is the innermost open
\* element the tokenizer calls ontext only, until the end tag of the
\* element; while a title or textarea element is, it calls ontext and
\* oninterpolation only (no template holds an entity); in base mode the
\* tokenizer never enters the states of the special tags
C30_SpecialContent ==
    /\ [][/\ parsing /\ mode = "HTML" /\ Innermost \in RawTextTags
              => OnlyCalls({"ontext"})
          /\ parsing /\ mode = "HTML" /\ Innermost \in RCDataTags
              => OnlyCalls({"ontext", "oninterpolation"})]_vars
    /\ [](mode = "BASE"
              => /\ ~inRCDATA
                 /\ state \notin {"BeforeSpecialS", "BeforeSpecialT",
                                   "SpecialStartSequence", "InRCDATA"})

----------------------------------------------------------------------------
(* C31: the walk of transform                                               *)

\* the nodes of the tree after the call, depth-first from node on
RECURSIVE Preorder(_)
RECURSIVE PreorderOf(_)
PreorderOf(nodes) ==
    IF nodes = <<>> THEN <<>>
    ELSE (IF Head(nodes) = NoNode THEN <<>> ELSE Preorder(Head(nodes)))
         \o PreorderOf(Tail(nodes))

Preorder(node) == <<node>> \o PreorderOf(walkChildren[node])

\* the places of the history where the transform trf was called on node, and
\* where its exit callback was
CallsOf(kind, trf, node) ==
    {i \in 1..Len(walkLog) : walkLog[i] = <<kind, trf, node>>}

\* the nodes in the order in which the last transform was called on them
VisitOrder ==
    LET last(e) == e[1] = "transform" /\ e[2] = Len(nodeTransforms)
        visits  == SelectSeq(walkLog, last)
    IN  [i \in 1..Len(visits) |-> visits[i][3]]

\* the exit callbacks of node run in reverse order of registration, after
\* everything that is done with its children
ExitsLast(node) ==
    /\ \A trf \in 1..Len(nodeTransforms) :
           Cardinality(CallsOf("exit", trf, node)) = 1
    /\ \A i \in CallsOf("exit", 2, node), j \in CallsOf("exit", 1, node) : i < j
    /\ \A k \in 1..Len(walkChildren[node]) :
           \A i \in 1..Len(walkLog) :
               walkLog[i][3] = walkChildren[node][k]
                   => \A j \in CallsOf("exit", 2, node) : i < j

\* C31: transform returns; the transforms were called, in the order of the
\* list, once on every node that is in the tree after the call, depth-first
\* (a node put in by the first transform is seen by the second only); the
\* exit callbacks of every node that was not replaced run after all of its
\* children are done, in reverse order of registration
C31_WalkVisitsAll ==
    walkDone =>
        /\ ~walkThrew
        /\ VisitOrder = Preorder(0)
        /\ \A node \in 0..ast.n :
               LET first == CallsOf("transform", 1, node)
                   then  == CallsOf("transform", 2, node)
               IN  /\ Cardinality(first) <= 1
                   /\ \A i \in first, j \in then : i < j
        /\ \A i \in 1..Len(Preorder(0)) :
               Preorder(0)[i] <= ast.n => ExitsLast(Preorder(0)[i])

----------------------------------------------------------------------------
(* C32: jobs whose active flag is false                                     *)

\* the step enters the job or pre-flush callback j
Invokes(j) ==
    (Starts("job") \/ Starts("pre")) /\ stack'[Depth'].j = j

\* the pre-flush pass on top of the stack is at an entry it selects and the
\* recursion guard lets through
PreAtSelected ==
    /\ Depth > 0 /\ Top.k = "flushPre"
    /\ Top.i < Len(queue)
    /\ preSelects(At(queue, Top.i), Top.inst)
    /\ ~(DEV /\ checkRecursiveUpdates(Top.seen, At(queue, Top.i)).cut)

\* C32 (as stated): no step of the scheduler, in the loop of flushJobs or in
\* a pre-flush pass, invokes a job whose active flag is false
C32_InactiveNeverInvoked ==
    [][\A j \in Jobs : Invokes(j) => jobActive[j]]_vars

\* C32 (amended): the loop of flushJobs never invokes a job whose active
\* flag is false; a pre-flush pass invokes the entry it selects whatever the
\* flag says
C32_MainLoopSkipsInactive ==
    [][/\ \A j \in Jobs : Starts("job") /\ stack'[Depth'].j = j => jobActive[j]
       /\ PreAtSelected => Invokes(At(queue, Top.i))]_vars

\* the loop of flushJobs is at a queued job whose active flag is false
C32_Witness ==
    InLoop /\ flushIndex < Len(queue) /\ ~jobActive[At(queue, flushIndex)]

\* ---- C33: an effect's scheduler in queueEffectSchedulers ----

\* how often x occurs in the sequence s
CountIn(s, x) == Cardinality({p \in 1..Len(s) : s[p] = x})

\* triggerEffects neither marks the effect for scheduling nor finds a mark:
\* its dirty level is above NotDirty and _shouldSchedule is false
Blocked(e) == effect[e].dirtyLevel # NotDirty /\ ~effect[e].shouldSchedule

\* the step pushes the scheduler of e
Enqueues(e) ==
    CountIn(queueEffectSchedulers', e) > CountIn(queueEffectSchedulers, e)

\* the step starts a run of e, or is the scheduler of e called from the queue
\* (whose dirty getter resets a MaybeDirty level)
RunsAgain(e) ==
    \/ runCount'[e] = runCount[e] + 1
    \/ Draining /\ queueEffectSchedulers # <<>> /\ Head(queueEffectSchedulers) = e

\* C33 (as stated): the queue of effect schedulers never holds the same
\* effect twice
C33_QueueHoldsEffectOnce ==
    \A e \in Effects : CountIn(queueEffectSchedulers, e) <= 1

\* C33 (amended): a step enqueues the scheduler of an effect at most once and
\* only when the effect is not blocked, it leaves the effect blocked, and a
\* blocked effect stays blocked until it runs again or its scheduler is
\* called: between two runs of an effect its scheduler is enqueued at most
\* once, however many of its deps are triggered and however often
C33_EnqueuedOncePerRun ==
    [][\A e \in Effects :
         /\ Enqueues(e) =>
              /\ CountIn(queueEffectSchedulers', e)
                     = CountIn(queueEffectSchedulers, e) + 1
              /\ ~Blocked(e)
              /\ effect'[e].dirtyLevel # NotDirty /\ ~effect'[e].shouldSchedule
         /\ (Blocked(e) /\ ~(effect'[e].dirtyLevel # NotDirty
                               /\ ~effect'[e].shouldSchedule))
              => RunsAgain(e)]_vars

\* scheduling is paused, the scheduler of a dirty effect waits in the queue
\* once, and the last trigger of its dep x did not enqueue it again
C33_Witness ==
    \E e \in Effects :
        /\ pauseScheduleStack > 0
        /\ CountIn(queueEffectSchedulers, e) = 1
        /\ effect[e].dirtyLevel = Dirty
        /\ e \notin scheduled
        /\ \E p \in 1..Len(targetMap.dep["x"].keys) : targetMap.dep["x"].keys[p] = e

\* ---- C34: baseParse and the state an earlier call leaves ----

\* the module of the parser as baseParse leaves it for tokenizer.parse when
\* no call was made before: the values of the declarations (part_007:85-98,
\* reactiveEffect.ts:833-861) under reset and the options of the call
CleanStart ==
    [Parser EXCEPT !.state = "Text", !.index = 0, !.sectionStart = 0,
                   !.sequenceIndex = 0, !.delimiterIndex = -1,
                   !.currentSequence = "undefined", !.tokenizerInVPre = FALSE,
                   !.currentOpenTag = 0, !.currentProp = NullProp,
                   !.currentAttrValue = <<>>, !.inPre = 0, !.inVPre = FALSE,
                   !.currentVPreBoundary = 0, !.stack = <<>>, !.elements = <<>>,
                   !.root = <<>>, !.errors = <<>>, !.inRCDATA = FALSE,
                   !.inXML = (currentOptions.ns \in {"SVG", "MATH_ML"}),
                   !.mode = IF currentOptions.parseMode = "html" THEN "HTML"
                            ELSE IF currentOptions.parseMode = "sfc" THEN "SFC"
                            ELSE "BASE"]

\* tokenizer.parse(currentInput) and the rest of baseParse, from P on
RECURSIVE parseFrom(_)
parseFrom(P) ==
    IF P.threw THEN P
    ELSE IF P.index < Len(buffer)
    THEN parseFrom(Then(dispatch(P, charCodeAt(P.index)),
                        LAMBDA T : [T EXCEPT !.index = @ + 1]))
    ELSE Then(finish(tokenizerCleanup(P)),
              LAMBDA T : [T EXCEPT !.root =
                  condenseWhitespace(@, FALSE, T.currentOptions.whitespace,
                                     T.inPre)])

\* a call of baseParse has returned or thrown
Parsed == ~parsing /\ fed > 0

\* C34: what a call of baseParse produces (the tree, the errors, whether it
\* throws) is what the same input and options produce in a module in which
\* no input was parsed before
C34_CleanEachCall ==
    Parsed =>
        LET F == parseFrom(CleanStart)
        IN  /\ root = F.root
            /\ elements = F.elements
            /\ errors = F.errors
            /\ parseThrew = F.threw

\* ---- C35: the recursive-descent parser terminates ----

\* the call parse(str) has ended, by a return or by an exception
DescentEnded == descentStatus \in {"returned", "threw"}

\* C35: every call of parse ends, and every iteration of a child loop that
\* does not throw leaves less of the source than it found
C35_DescentTerminates ==
    /\ <>DescentEnded
    /\ [][descentIters' = descentIters + 1 /\ descentStatus' = "running"
            => Len(descentSource') < Len(descentSource)]_vars

\* ---- C36: tokenize terminates ----

\* C36: every call of tokenize returns, and every iteration of its loop
\* consumes the character or changes the state
C36_TokenizeTerminates ==
    /\ <>tokenizeDone
    /\ [][tokenizeIters' = tokenizeIters + 1
            => tokenizeI' = tokenizeI + 1 \/ currentState' # currentState]_vars

\* ---- C37: Tokenizer.parse ends and calls onend ----

\* how often the last step called the callback cb
Called(cb) == Cardinality({n \in 1..Len(called) : called[n].cb = cb})

\* C37: every call of Tokenizer.parse ends, every iteration of its loop moves
\* the index forward, no iteration calls onend, and the end of the call calls
\* onend exactly once
C37_EndsWithOneOnend ==
    /\ parsing ~> ~parsing
    /\ [][parsing /\ parsing' => index' > index /\ Called("onend")' = 0]_vars
    /\ [][parsing /\ ~parsing' => Called("onend")' = 1]_vars

\* ---- C38: the part of the queue that waits stays sorted ----

\* the entries at the indices above flushIndex are in ascending order of id,
\* those without id last
SortedAboveFlushIndex ==
    \A p, q \in 1..Len(queue) :
        (p > flushIndex + 1 /\ p < q) => IdDiff(queue[p], queue[q]) <= 0

\* C38: while the queue is being flushed, the entries at the indices above
\* flushIndex are sorted by ascending id, jobs without id last
C38_WaitingPartSorted == isFlushing => SortedAboveFlushIndex

\* the loop of flushJobs is inside job 1, which has queued itself again: it
\* was inserted before the job with id 2, which waits since before the flush
C38_Witness ==
    /\ isFlushing
    /\ Depth > 1
    /\ IF Depth > 1 THEN Top.k = "job" /\ Top.j = 1 ELSE FALSE
    /\ Len(queue) = flushIndex + 3
    /\ queue[flushIndex + 2] = 1
    /\ queue[flushIndex + 3] = 2

----------------------------------------------------------------------------
(* The flags of the scheduler and the work that waits *)

\* a job or a post-flush callback waits to be flushed
WorkQueued == queue # <<>> \/ pendingPostFlushCbs # <<>>

----------------------------------------------------------------------------
(* The cache and the key set of KeepAlive *)

\* the members of the key set
KeysHeld == {keys[i] : i \in 1..Len(keys)}

\* C40: the cache and the key set of KeepAlive stay consistent: every cached
\* key is in the key set, every key of the key set other than the one that
\* awaits its mounted or updated hook has a cached vnode, and pruneCacheEntry
\* is applied only to a key that has a cached vnode (applied to another key
\* it throws, which renderThrew records).
C40_CacheMatchesKeys ==
    /\ cache \subseteq KeysHeld
    /\ (KeysHeld \ {pendingCacheKey}) \subseteq cache
    /\ ~renderThrew

====
